---- MODULE Spec2Model ----
(***************************************************************************)
(* Model of the external synchronisation engine of the BYOV enrollment     *)
(* application (src/dashboard_sync.py, duplicated in src/byov_app.py):     *)
(* the retry wrapper, the two-phase and the single-request sync, the       *)
(* batch registration with its per-photo fallback, the persisted sync      *)
(* report and the resume of failed uploads.                                *)
(*                                                                         *)
(* Python dicts are records holding exactly the keys the code sets; the    *)
(* external dashboard and the file system are the environment: every       *)
(* answer they can give is chosen with \E inside the handler's action.     *)
(* A callable handed to the retry wrapper is a "plan": the sequence of     *)
(* the outcomes of its successive invocations.                             *)
(***************************************************************************)
EXTENDS Integers, Sequences, FiniteSets, TLC

VARIABLES
    rr,        \* one call of _retry_request: its arguments and its outcome
    record,    \* the enrollment row handed to the sync functions
    docs,      \* the documents table rows of the enrollment, in table order
    files,     \* byte size of the stored file of each documents row
    store,     \* sync state store: dashboard_tech_id, last_upload_report
    enrollment,\* the approved column and the approved_synced checklist task
    remote,    \* technician records the dashboard holds for this techId
    net,       \* network calls issued by the last sync call, in order
    last,      \* the last sync call: its name and the dict it returned
    fn,        \* one call of a helper function: its input and what it gave
    push,      \* push_to_dashboard calls running at the same time for one
               \* techId: where each one is and what it got so far
    segno      \* the SegnoClient singleton: its credentials, its
               \* authenticated flag, and the requests and the result of its
               \* last submit_enrollment call

vars == <<rr, record, docs, files, store, enrollment, remote, net, last, fn, push,
          segno>>

syncVars == <<record, docs, files, store, enrollment, remote, net, last, push, segno>>

(***************************************************************************)
(* Bounds                                                                  *)
(***************************************************************************)
MaxAttempts == 4

MaxDocs == 2

MaxRemote == 2

(***************************************************************************)
(* Retry controller: _retry_request (dashboard_sync.py 78-95)              *)
(***************************************************************************)
\* What one invocation of the callable can do: return a response whose ok
\* flag is set, return a response whose ok flag is clear (status 500), raise
\* (a timeout), or return a value that has no ok attribute.
AttemptOutcomes == {"ok", "notok", "exc", "value"}

\* str() of the exception the except clause catches for a failed invocation:
\* RuntimeError(f"status_{resp.status_code}") or the transport exception.
ErrorOf(o) == IF o = "notok" THEN "status_500" ELSE "timeout"

\* Variant: the delay grows linearly with the attempt number.
BackoffDelayLinear(backoff_base, attempt) == backoff_base * attempt

\* time.sleep argument after failed attempt number `attempt`, in tenths of a
\* time unit (backoff_base is given in tenths).
BackoffDelay(backoff_base, attempt) == backoff_base * (2 ^ (attempt - 1))

\* Variant: resp.ok is read without the hasattr test, so a value without
\* that attribute is one more failed attempt.
RECURSIVE RetryLoopOkRequired(_, _, _, _, _)
RetryLoopOkRequired(func, attempts, backoff_base, attempt, acc) ==
    IF attempt > attempts
    THEN [acc EXCEPT !.raised = TRUE,
                     !.error = IF acc.last_exc = "None" THEN "TypeError" ELSE acc.last_exc]
    ELSE LET o == func[attempt] IN
         IF o = "ok"
         THEN [acc EXCEPT !.value = o, !.calls = @ + 1, !.outs = Append(@, o)]
         ELSE RetryLoopOkRequired(func, attempts, backoff_base, attempt + 1,
                [acc EXCEPT !.calls = @ + 1,
                            !.outs = Append(@, o),
                            !.last_exc = IF o = "value" THEN "AttributeError"
                                         ELSE ErrorOf(o),
                            !.sleeps = IF attempt < attempts
                                       THEN Append(@, BackoffDelay(backoff_base, attempt))
                                       ELSE @])

\* The for loop of _retry_request from iteration `attempt` on.  acc carries
\* last_exc, the invocations made and the sleeps taken so far.
RECURSIVE RetryLoop(_, _, _, _, _)
RetryLoop(func, attempts, backoff_base, attempt, acc) ==
    IF attempt > attempts
    THEN \* raise last_exc; with attempts = 0 last_exc is None and the raise
         \* statement itself fails with a TypeError
         [acc EXCEPT !.raised = TRUE,
                     !.error = IF acc.last_exc = "None" THEN "TypeError" ELSE acc.last_exc]
    ELSE LET o == func[attempt] IN
         IF o \in {"ok", "value"}
         THEN [acc EXCEPT !.value = o, !.calls = @ + 1, !.outs = Append(@, o)]
         ELSE RetryLoop(func, attempts, backoff_base, attempt + 1,
                [acc EXCEPT !.calls = @ + 1,
                            !.outs = Append(@, o),
                            !.last_exc = ErrorOf(o),
                            !.sleeps = IF attempt < attempts
                                       THEN Append(@, BackoffDelay(backoff_base, attempt))
                                       ELSE @])

RetryStart ==
    [raised |-> FALSE, value |-> "None", error |-> "None", last_exc |-> "None",
     calls |-> 0, outs |-> <<>>, sleeps |-> <<>>]

\* Variant: the loop runs over range(1, attempts), one attempt short.
retry_request_one_short(func, attempts, backoff_base) ==
    RetryLoop(func, attempts - 1, backoff_base, 1, RetryStart)

\* _retry_request(func, attempts, backoff_base)
retry_request(func, attempts, backoff_base) ==
    RetryLoop(func, attempts, backoff_base, 1, RetryStart)

\* The callables the retry wrapper can be handed: one outcome per invocation.
Funcs == [1..MaxAttempts -> AttemptOutcomes]

\* backoff_base values in tenths: the default 0.5 and the 0.6 of the callers.
BackoffBases == {5, 6}

RRIdle == [func |-> [i \in 1..MaxAttempts |-> "ok"], attempts |-> 0,
           backoff_base |-> 5, out |-> <<>>]

\* no helper function has been called
FnIdle == [name |-> "none"]

\* SegnoClient() as constructed (segno_client.py 17-22), with credentials
\* in the environment; no submit_enrollment call has been made
SegnoIdle ==
    [credentials |-> TRUE, authenticated |-> FALSE, calls |-> <<>>,
     result |-> [none |-> TRUE]]

(***************************************************************************)
(* The retry wrapper on its own                                            *)
(***************************************************************************)
SyncIdle ==
    /\ record = [tech_id |-> "T1"]
    /\ docs = <<>>
    /\ files = <<>>
    /\ store = [dashboard_tech_id |-> "None", last_upload_report |-> <<>>]
    /\ enrollment = [approved |-> 0, approved_synced |-> FALSE]
    /\ remote = 0
    /\ net = <<>>
    /\ last = [op |-> "none", args |-> [none |-> TRUE], result |-> [none |-> TRUE]]
    /\ push = <<>>
    /\ segno = SegnoIdle

InitRetry ==
    /\ rr \in [func : Funcs, attempts : 0..MaxAttempts,
               backoff_base : BackoffBases, out : {<<>>}]
    /\ SyncIdle
    /\ fn = FnIdle

\* rr.out = <<r>> once _retry_request has returned or raised
RetryCall ==
    /\ rr.out = <<>>
    /\ rr' = [rr EXCEPT !.out = <<retry_request(rr.func, rr.attempts, rr.backoff_base)>>]
    /\ UNCHANGED <<syncVars, fn>>

NextRetry == RetryCall

SpecRetry == InitRetry /\ [][NextRetry]_vars

(***************************************************************************)
(* Environment of the sync functions                                       *)
(***************************************************************************)
\* file_path of the i-th row of the documents table
Paths == <<"p1", "p2", "p3", "p4">>


\* doc_type of the i-th row: an insurance scan, a vehicle photo, the signed
\* policy PDF, a second vehicle photo
TypeOfRow == <<"insurance", "vehicle", "signature", "vehicle">>

DocRows == [i \in 1..Len(Paths) |-> [file_path |-> Paths[i], doc_type |-> TypeOfRow[i]]]

\* the documents tables of the enrollments considered
DocLists == { SubSeq(DocRows, 1, n) : n \in 0..MaxDocs }

\* MAX_BYTES of push_to_dashboard_single_request
MAX_BYTES == 10 * 1024 * 1024

\* len() of the bytes of the stored files of n documents rows: every file
\* holds exactly MAX_BYTES, or the first one holds one byte more
FileSizes(n) ==
    { [i \in 1..n |-> MAX_BYTES],
      [i \in 1..n |-> IF i = 1 THEN MAX_BYTES + 1 ELSE MAX_BYTES] }

\* size of the file stored at `path`
SizeOf(path) == files[CHOOSE i \in 1..Len(docs) : docs[i].file_path = path]

\* attempts= and backoff_base= (in tenths) of every _retry_request call site
Attempts == 3

BackoffBase == 6

\* id the dashboard gives the technician record
DashboardId == "D1"

\* Callables handed to _retry_request by the sync functions: success at
\* once, or failure of all three attempts with a last error (status_500) that
\* differs from the earlier ones.  Every other callable is covered by
\* SpecRetry.
HandlerPlans == {<<"ok">>, <<"exc", "exc", "notok">>}

\* The callables of a loop over n documents: a loop over a single document
\* is also handed the callable that succeeds at its last attempt, which
\* makes the most requests a callable can make.
PlansFor(n) ==
    IF n = 1 THEN HandlerPlans \cup {<<"exc", "notok", "ok">>} ELSE HandlerPlans

\* a response body of n characters; the i-th character is written i
Text(n) == [i \in 1..n |-> i]

\* the 200 of `.text[:200]`
BodyLimit == 200

\* Variant: the body is copied whole.
NotTruncated(text) == text

\* text[:200]
Truncated(text) ==
    SubSeq(text, 1, IF Len(text) < BodyLimit THEN Len(text) ELSE BodyLimit)

\* POST /api/login: a 200 answer, a transport exception, a 401 answer with a
\* short body, a 500 answer whose body is one character over the limit
LoginOutcomes ==
    { [out |-> "ok", status_code |-> 200, text |-> <<>>],
      [out |-> "exc", status_code |-> 0, text |-> <<>>],
      [out |-> "notok", status_code |-> 401, text |-> Text(12)],
      [out |-> "notok", status_code |-> 500, text |-> Text(BodyLimit + 1)] }

\* body of a non-2xx answer of POST /api/technicians
ErrorText == Text(12)

\* GET /api/technicians?techId=: "list" is a 2xx JSON list of the records the
\* dashboard holds; the others are a 2xx non-list body, a 2xx unparseable
\* body, a non-2xx answer and a transport exception.
CheckOutcomes == {"list", "nonlist", "badjson", "notok", "exc"}

\* POST /api/technicians: 2xx with an id, 2xx without, 2xx unparseable,
\* non-2xx, transport exception
CreateOutcomes == {"ok_id", "ok_noid", "ok_badjson", "notok", "exc"}

\* One network call: endpoint, the document it is about ("-" if none), its
\* outcome, and the documents whose bytes the request carries
Call(ep, path, out) ==
    [ep |-> ep, path |-> path, out |-> out,
     sent |-> IF ep = "put" THEN <<path>> ELSE <<>>]

\* the login request, with the status and body of its answer
LoginCall(login) ==
    [ep |-> "login", path |-> "-", out |-> login.out, sent |-> <<>>,
     status_code |-> login.status_code, text |-> login.text]

\* the invocations a _retry_request call made, as network calls
RetryCalls(ep, path, r) == [i \in 1..r.calls |-> Call(ep, path, r.outs[i])]

\* What the environment does to one document of the two-phase upload loop:
\* os.path.exists, the upload-URL callable, the JSON body of its answer, the
\* PUT callable.  Fields the code never reaches keep their first value.
UpOracles(n) ==
    { o \in [exists : BOOLEAN, url : PlansFor(n),
             body : {"url", "nourl", "badjson"}, put : PlansFor(n)] :
        /\ (~o.exists) => (o.url = <<"ok">>)
        /\ (~o.exists \/ retry_request(o.url, Attempts, BackoffBase).raised)
              => (o.body = "url")
        /\ (~o.exists \/ retry_request(o.url, Attempts, BackoffBase).raised
              \/ o.body # "url")
              => (o.put = <<"ok">>) }

\* Variant: the documents are taken in the order of the documents list.
PathsInListOrder(ds) ==
    LET all == SelectSeq(ds, LAMBDA d : d.doc_type \in {"vehicle", "insurance", "registration"})
    IN  [i \in 1..Len(all) |-> [path |-> all[i].file_path, category |-> all[i].doc_type]]

\* vehicle_paths, insurance_paths, registration_paths in the iteration order
\* of category_to_paths (dashboard_sync.py 230-260, 805-819)
PathsByCategory(ds) ==
    LET Of(c) == SelectSeq(ds, LAMBDA d : d.doc_type = c)
        Item(d) == [path |-> d.file_path, category |-> d.doc_type]
        all == Of("vehicle") \o Of("insurance") \o Of("registration")
    IN  [i \in 1..Len(all) |-> Item(all[i])]

NoWork == [net |-> <<>>, failed |-> <<>>, uploaded |-> <<>>]

\* One iteration of the upload loop (dashboard_sync.py 265-317, 823-867)
UploadOne(photo_path, category, o) ==
    LET Failed(n, why) ==
            [net |-> n, failed |-> <<[path |-> photo_path, reason |-> why]>>,
             uploaded |-> <<>>]
    IN
    IF ~o.exists THEN Failed(<<>>, "missing")
    ELSE LET upload_req == retry_request(o.url, Attempts, BackoffBase)
             n1 == RetryCalls("upload_url", photo_path, upload_req)
         IN
         IF upload_req.raised THEN Failed(n1, upload_req.error)
         ELSE IF o.body = "badjson" THEN Failed(n1, "json_error")
         ELSE IF o.body = "nourl" THEN Failed(n1, "no_upload_url")
         ELSE LET gcs_resp == retry_request(o.put, Attempts, BackoffBase)
                  n2 == n1 \o RetryCalls("put", photo_path, gcs_resp)
              IN
              IF gcs_resp.raised THEN Failed(n2, gcs_resp.error)
              ELSE [net |-> n2, failed |-> <<>>,
                    uploaded |-> <<[path |-> photo_path, category |-> category]>>]

\* Variant: the loop ends at the first document that fails.
RECURSIVE UploadLoopAbortOnFailure(_, _, _, _)
UploadLoopAbortOnFailure(items, orc, i, acc) ==
    IF i > Len(items) \/ acc.failed # <<>> THEN acc
    ELSE LET one == UploadOne(items[i].path, items[i].category, orc[i]) IN
         UploadLoopAbortOnFailure(items, orc, i + 1,
                    [net |-> acc.net \o one.net,
                     failed |-> acc.failed \o one.failed,
                     uploaded |-> acc.uploaded \o one.uploaded])

\* The upload loop from item i on
RECURSIVE UploadLoop(_, _, _, _)
UploadLoop(items, orc, i, acc) ==
    IF i > Len(items) THEN acc
    ELSE LET one == UploadOne(items[i].path, items[i].category, orc[i]) IN
         UploadLoop(items, orc, i + 1,
                    [net |-> acc.net \o one.net,
                     failed |-> acc.failed \o one.failed,
                     uploaded |-> acc.uploaded \o one.uploaded])

(***************************************************************************)
(* Batch registration with per-photo fallback                              *)
(* (dashboard_sync.py 319-386, 869-908)                                    *)
(***************************************************************************)
\* POST .../photos/batch for k uploaded entries: 2xx whose JSON body is a
\* list of len elements, 2xx whose body is not a list (or does not parse:
\* the except clause makes the same assignment), non-2xx, exception.
BatchOutcomes(k) ==
    { [out |-> "ok_list", len |-> l] : l \in 0..k }
      \cup { [out |-> o, len |-> 0] : o \in {"ok_nonlist", "notok", "exc"} }

BatchFailed(b) == b.out \in {"notok", "exc"}

\* the batch request, with the documents its payload lists
BatchCall(uploaded_entries, out) ==
    [ep |-> "batch", path |-> "-", out |-> out, sent |-> <<>>,
     photos |-> [i \in 1..Len(uploaded_entries) |-> uploaded_entries[i].path]]

NoneRegistered == [photo_count |-> 0, failed |-> <<>>, net |-> <<>>]

\* Variant: photo_count is incremented before the registration is tried, so
\* a failed registration is counted and recorded as failed.
RECURSIVE PerPhotoFallbackCountsFirst(_, _, _, _)
PerPhotoFallbackCountsFirst(uploaded_entries, regs, i, acc) ==
    IF i > Len(uploaded_entries) THEN acc
    ELSE LET e == uploaded_entries[i]
             photo_resp == retry_request(regs[i], Attempts, BackoffBase)
             n == acc.net \o RetryCalls("photos", e.path, photo_resp)
         IN
         PerPhotoFallbackCountsFirst(uploaded_entries, regs, i + 1,
            IF photo_resp.raised
            THEN [acc EXCEPT !.net = n, !.photo_count = @ + 1,
                             !.failed = Append(@, [path |-> e.path,
                                                   reason |-> photo_resp.error])]
            ELSE [acc EXCEPT !.net = n, !.photo_count = @ + 1])

\* The per-photo loop: both copies of it (after a non-2xx batch answer and
\* after a batch exception) run this code.
RECURSIVE PerPhotoFallback(_, _, _, _)
PerPhotoFallback(uploaded_entries, regs, i, acc) ==
    IF i > Len(uploaded_entries) THEN acc
    ELSE LET e == uploaded_entries[i]
             photo_resp == retry_request(regs[i], Attempts, BackoffBase)
             n == acc.net \o RetryCalls("photos", e.path, photo_resp)
         IN
         PerPhotoFallback(uploaded_entries, regs, i + 1,
            IF photo_resp.raised
            THEN [acc EXCEPT !.net = n,
                             !.failed = Append(@, [path |-> e.path,
                                                   reason |-> photo_resp.error])]
            ELSE [acc EXCEPT !.net = n, !.photo_count = @ + 1])

\* Variant: only a non-2xx batch answer falls back; a batch exception ends
\* the registration.
RegisterUploadedAbortOnException(uploaded_entries, b, regs) ==
    LET batch_call == <<BatchCall(uploaded_entries, b.out)>> IN
    IF uploaded_entries = <<>> THEN NoneRegistered
    ELSE IF b.out = "exc" THEN [NoneRegistered EXCEPT !.net = batch_call]
    ELSE IF BatchFailed(b)
    THEN PerPhotoFallback(uploaded_entries, regs, 1,
                          [NoneRegistered EXCEPT !.net = batch_call])
    ELSE LET registered == IF b.out = "ok_list" THEN b.len
                           ELSE Len(uploaded_entries)
         IN  [photo_count |-> registered, failed |-> <<>>, net |-> batch_call]

\* Variant: the batch request goes through the retry wrapper too, so a
\* failing one is made three times before the fallback.
RegisterUploadedBatchRetried(uploaded_entries, b, regs) ==
    LET batch_call == <<BatchCall(uploaded_entries, b.out)>> IN
    IF uploaded_entries = <<>> THEN NoneRegistered
    ELSE IF BatchFailed(b)
    THEN PerPhotoFallback(uploaded_entries, regs, 1,
                          [NoneRegistered EXCEPT !.net = batch_call \o batch_call \o batch_call])
    ELSE LET registered == IF b.out = "ok_list" THEN b.len
                           ELSE Len(uploaded_entries)
         IN  [photo_count |-> registered, failed |-> <<>>, net |-> batch_call]

\* Variant: after a failed batch request the entries go through both copies
\* of the per-photo loop.
RegisterUploadedBothLoops(uploaded_entries, b, regs) ==
    LET batch_call == <<BatchCall(uploaded_entries, b.out)>> IN
    IF uploaded_entries = <<>> THEN NoneRegistered
    ELSE IF BatchFailed(b)
    THEN PerPhotoFallback(uploaded_entries, regs, 1,
            PerPhotoFallback(uploaded_entries, regs, 1,
                             [NoneRegistered EXCEPT !.net = batch_call]))
    ELSE LET registered == IF b.out = "ok_list" THEN b.len
                           ELSE Len(uploaded_entries)
         IN  [photo_count |-> registered, failed |-> <<>>, net |-> batch_call]

\* `if uploaded_entries:` block; b is the batch answer, regs the callables
\* of the individual registrations
RegisterUploaded(uploaded_entries, b, regs) ==
    LET batch_call == <<BatchCall(uploaded_entries, b.out)>> IN
    IF uploaded_entries = <<>> THEN NoneRegistered
    ELSE IF BatchFailed(b)
    THEN PerPhotoFallback(uploaded_entries, regs, 1,
                          [NoneRegistered EXCEPT !.net = batch_call])
    ELSE LET registered == IF b.out = "ok_list" THEN b.len
                           ELSE Len(uploaded_entries)
         IN  [photo_count |-> registered, failed |-> <<>>, net |-> batch_call]

\* The answers the registration stage can get for these uploaded entries
RegOracles(uploaded_entries) ==
    LET k == Len(uploaded_entries) IN
    IF k = 0
    THEN { [b |-> [out |-> "ok_nonlist", len |-> 0], regs |-> <<>>] }
    ELSE { [b |-> b, regs |-> [i \in 1..k |-> <<"ok">>]] :
              b \in { x \in BatchOutcomes(k) : ~BatchFailed(x) } }
         \cup { [b |-> b, regs |-> r] :
                  b \in { x \in BatchOutcomes(k) : BatchFailed(x) },
                  r \in [1..k -> PlansFor(k)] }

\* Upload loop followed by registration: photo_count, failed_uploads and the
\* calls made, for the documents `items`
UploadAndRegister(items, orc, ro) ==
    LET up == UploadLoop(items, orc, 1, NoWork)
        reg == RegisterUploaded(up.uploaded, ro.b, ro.regs)
    IN  [photo_count |-> reg.photo_count,
         failed_uploads |-> up.failed \o reg.failed,
         uploaded |-> up.uploaded,
         batch |-> ro.b.out,
         net |-> up.net \o reg.net]

(***************************************************************************)
(* Sync functions                                                          *)
(***************************************************************************)
NoCall == [op |-> "none", args |-> [none |-> TRUE], result |-> [none |-> TRUE]]

\* A sync function is called from a fresh script run
Idle == last = NoCall

Return(op, args, result, calls, store2, remote2) ==
    /\ last' = [op |-> op, args |-> args, result |-> result]
    /\ net' = calls
    /\ store' = store2
    /\ remote' = remote2
    /\ UNCHANGED <<rr, record, docs, files, fn, push, segno>>

\* d[key] = v
Put(d, key, v) == [k \in DOMAIN d \cup {key} |-> IF k = key THEN v ELSE d[k]]

\* report / result dict: failed_uploads is a key only when the list is not empty
WithFailed(d, failed_uploads) ==
    IF failed_uploads = <<>> THEN d
    ELSE [k \in DOMAIN d \cup {"failed_uploads"} |->
            IF k = "failed_uploads" THEN failed_uploads ELSE d[k]]

\* push_to_dashboard's answer to a rejected login (dashboard_sync.py 138-142)
LoginFailedWithStatus(login) ==
    [error |-> "Login failed with status " \o ToString(login.status_code),
     body |-> Truncated(login.text)]

\* the other entry points' answer (dashboard_sync.py 415, 773, 936)
LoginFailed(login) ==
    [error |-> "Login failed " \o ToString(login.status_code),
     body |-> Truncated(login.text)]

LoginException == [error |-> "Login exception: timeout"]

\* database.set_dashboard_sync_info(enrollment_id, dashboard_tech_id, report)
\* (database.py 321-346): both columns are overwritten
set_dashboard_sync_info(dashboard_tech_id, report) ==
    [dashboard_tech_id |-> dashboard_tech_id, last_upload_report |-> <<report>>]

\* Variant: the answer of the exists check is not looked at.
ExistsCheckIgnored(check) == FALSE

\* `check_resp.ok` and `isinstance(existing, list) and existing`
\* (dashboard_sync.py 164-168, 789-793, 952-956): a "list" answer holds the
\* records the dashboard has for the techId
ExistsOnDashboard(check) == check = "list" /\ remote > 0

\* the exists check as it appears in the call log
CheckCall(check) ==
    Call("check", "-", IF check # "list" THEN check
                       ELSE IF remote > 0 THEN "list_nonempty" ELSE "list_empty")

\* the dashboard id found by GET /api/technicians?techId= when the stored or
\* given one is missing (dashboard_sync.py 786-797, 949-960)
LookupId(check) ==
    IF ExistsOnDashboard(check) THEN DashboardId ELSE "None"

\* Variant: a non-2xx answer of the exists check is raised as an error.
CheckRaisesForStatus(check) == check \in {"exc", "notok"}

\* session.get of the exists check raises: push_to_dashboard makes the
\* request inside its outer try block only (dashboard_sync.py 157-162,
\* 393-394)
CheckRaises(check) == check = "exc"

\* Variant: the create answer is taken to hold an id whenever it parses.
CreatedIdAssumed(create) == DashboardId

\* dashboard_tech_id = tech_data.get("id") of a parsed create answer
\* (dashboard_sync.py 220)
CreatedId(create) == IF create = "ok_id" THEN DashboardId ELSE "None"

\* push_to_dashboard(record, enrollment_id)  (dashboard_sync.py 109-394)
PushToDashboard ==
    /\ Idle
    /\ UNCHANGED enrollment
    /\ \E login \in LoginOutcomes :
      LET n1 == <<LoginCall(login)>>
          Ret(result, calls, remote2) ==
              Return("push_to_dashboard", [enrollment_id |-> 1], result, calls,
                     store, remote2)
      IN
      IF login.out = "exc" THEN Ret([error |-> "timeout"], n1, remote)
      ELSE IF login.out = "notok" THEN Ret(LoginFailedWithStatus(login), n1, remote)
      ELSE IF record.tech_id = "" THEN Ret([error |-> "record missing tech_id"], n1, remote)
      ELSE \E check \in CheckOutcomes :
        LET n2 == Append(n1, CheckCall(check)) IN
        IF CheckRaises(check) THEN Ret([error |-> "timeout"], n2, remote)
        ELSE IF ExistsOnDashboard(check)
        THEN Ret([status |-> "exists", photo_count |-> 0], n2, remote)
        ELSE \E create \in CreateOutcomes :
          LET n3 == Append(n2, Call("create", "-", create)) IN
          IF create = "exc" THEN Ret([error |-> "timeout"], n3, remote)
          ELSE IF create = "notok"
          THEN Ret([error |-> "dashboard responded 500", body |-> Truncated(ErrorText)],
                   n3, remote)
          ELSE IF create = "ok_badjson"
          THEN Ret([error |-> "Failed to parse technician response"], n3, remote)
          ELSE IF CreatedId(create) = "None"
          THEN Ret([error |-> "No technician ID in response"], n3, remote)
          ELSE /\ remote < MaxRemote
               /\ LET items == PathsByCategory(docs) IN
                  \E orc \in [1..Len(items) -> UpOracles(Len(items))] :
                  \E ro \in RegOracles(UploadLoop(items, orc, 1, NoWork).uploaded) :
                    LET w == UploadAndRegister(items, orc, ro) IN
                    Ret(WithFailed([status |-> "created", photo_count |-> w.photo_count],
                                   w.failed_uploads),
                        n3 \o w.net, remote + 1)

\* database.get_enrollment_by_id gives the row of the enrollment; or it
\* gives None or raises, both of which leave `record` None
\* (dashboard_sync.py 777-783, 940-945)
RowOutcomes == {"row", "none"}

\* upload_photos_for_technician(enrollment_id, dashboard_tech_id)
\* (dashboard_sync.py 761-922)
UploadPhotosForTechnician ==
    /\ Idle
    /\ UNCHANGED enrollment
    /\ \E login \in LoginOutcomes, given \in {"None", DashboardId} :
      LET n1 == <<LoginCall(login)>>
          Ret(result, calls, store2) ==
              Return("upload_photos_for_technician",
                     [enrollment_id |-> 1, dashboard_tech_id |-> given],
                     result, calls, store2, remote)
      IN
      IF login.out = "exc" THEN Ret(LoginException, n1, store)
      ELSE IF login.out = "notok" THEN Ret(LoginFailed(login), n1, store)
      ELSE \E row \in RowOutcomes :
        IF row = "none" THEN Ret([error |-> "enrollment not found"], n1, store)
        ELSE
        \E check \in IF given = "None" THEN CheckOutcomes ELSE {"list"} :
        LET n2 == IF given = "None" THEN Append(n1, CheckCall(check)) ELSE n1
            dashboard_tech_id == IF given = "None" THEN LookupId(check) ELSE given
        IN
        IF dashboard_tech_id = "None"
        THEN Ret([error |-> "dashboard technician id not provided and lookup failed"],
                 n2, store)
        ELSE LET items == PathsByCategory(docs) IN
             \E orc \in [1..Len(items) -> UpOracles(Len(items))] :
             \E ro \in RegOracles(UploadLoop(items, orc, 1, NoWork).uploaded) :
               LET w == UploadAndRegister(items, orc, ro)
                   report == WithFailed([photo_count |-> w.photo_count], w.failed_uploads)
               IN  Ret(report, n2 \o w.net,
                       set_dashboard_sync_info(dashboard_tech_id, report))

\* What the environment does to one previously failed document during a
\* resume: as UpOracles, plus the callable of its individual registration.
RetryOracles(n) ==
    { o \in [exists : BOOLEAN, url : PlansFor(n),
             body : {"url", "nourl", "badjson"}, put : PlansFor(n),
             reg : PlansFor(n)] :
        /\ [exists |-> o.exists, url |-> o.url, body |-> o.body, put |-> o.put]
              \in UpOracles(n)
        /\ (~o.exists \/ o.body # "url"
              \/ retry_request(o.url, Attempts, BackoffBase).raised
              \/ retry_request(o.put, Attempts, BackoffBase).raised)
              => (o.reg = <<"ok">>) }

\* database.get_documents_for_enrollment answers with the rows, or raises
LookupOutcomes == {"ok", "exc"}

\* path_to_category (dashboard_sync.py 980-984), as the rows it is built
\* from: none when the lookup raised
PathToCategory(lookup) == IF lookup = "exc" THEN <<>> ELSE docs

\* Variant: a path that the mapping does not hold has no category.
CategoryOfNoDefault(path_to_category, path) ==
    IF \E i \in 1..Len(path_to_category) : path_to_category[i].file_path = path
    THEN path_to_category[CHOOSE i \in 1..Len(path_to_category) :
                             path_to_category[i].file_path = path].doc_type
    ELSE "None"

\* path_to_category.get(path, 'vehicle')  (dashboard_sync.py 994)
CategoryOf(path_to_category, path) ==
    IF \E i \in 1..Len(path_to_category) : path_to_category[i].file_path = path
    THEN path_to_category[CHOOSE i \in 1..Len(path_to_category) :
                             path_to_category[i].file_path = path].doc_type
    ELSE "vehicle"

\* the category in the JSON of the upload-URL and of the registration request
WithCategory(calls, category) ==
    [i \in 1..Len(calls) |->
        IF calls[i].ep \in {"upload_url", "photos"}
        THEN Put(calls[i], "category", category)
        ELSE calls[i]]

\* One iteration of the resume loop (dashboard_sync.py 989-1041)
RetryOne(entry, o, path_to_category) ==
    LET path == entry.path
        category == CategoryOf(path_to_category, path)
        up == UploadOne(path, category, [exists |-> o.exists, url |-> o.url,
                                         body |-> o.body, put |-> o.put])
    IN
    IF up.uploaded = <<>>
    THEN [net |-> WithCategory(up.net, category), still_failed |-> up.failed,
          retried |-> 0]
    ELSE LET reg_resp == retry_request(o.reg, Attempts, BackoffBase)
             n == WithCategory(up.net \o RetryCalls("photos", path, reg_resp), category)
         IN
         IF reg_resp.raised
         THEN [net |-> n, retried |-> 0,
               still_failed |-> <<[path |-> path, reason |-> reg_resp.error]>>]
         ELSE [net |-> n, retried |-> 1, still_failed |-> <<>>]

\* Variant: a still-failing entry is put at the head of still_failed.
RECURSIVE RetryLoopOverNewestFirst(_, _, _, _, _)
RetryLoopOverNewestFirst(failed, orc, path_to_category, i, acc) ==
    IF i > Len(failed) THEN acc
    ELSE LET one == RetryOne(failed[i], orc[i], path_to_category) IN
         RetryLoopOverNewestFirst(failed, orc, path_to_category, i + 1,
                       [net |-> acc.net \o one.net,
                        still_failed |-> one.still_failed \o acc.still_failed,
                        retried |-> acc.retried + one.retried])

\* The resume loop from entry i on (dashboard_sync.py 986-1041)
RECURSIVE RetryLoopOver(_, _, _, _, _)
RetryLoopOver(failed, orc, path_to_category, i, acc) ==
    IF i > Len(failed) THEN acc
    ELSE LET one == RetryOne(failed[i], orc[i], path_to_category) IN
         RetryLoopOver(failed, orc, path_to_category, i + 1,
                       [net |-> acc.net \o one.net,
                        still_failed |-> acc.still_failed \o one.still_failed,
                        retried |-> acc.retried + one.retried])

\* Variant: every document of the enrollment is taken as failed.
FailedOfAllDocuments(report) ==
    [i \in 1..Len(docs) |-> [path |-> docs[i].file_path, reason |-> "missing"]]

\* report_obj.get('failed_uploads', [])
FailedOf(report) ==
    IF "failed_uploads" \in DOMAIN report THEN report.failed_uploads ELSE <<>>

\* Variant: the still-failing entries are appended to the stale list.
NewReportMerged(report_obj, retried, still_failed) ==
    WithFailed([photo_count |-> report_obj.photo_count + retried],
               FailedOf(report_obj) \o still_failed)

\* new_report  (dashboard_sync.py 1043-1046)
NewReport(report_obj, retried, still_failed) ==
    WithFailed([photo_count |-> report_obj.photo_count + retried], still_failed)

\* The lookup outcomes that tell apart: a raised lookup changes a category
\* only if the rows give some failed path one other than the default
LookupsThatMatter(failed) ==
    IF \E i \in 1..Len(failed) : CategoryOf(docs, failed[i].path) # "vehicle"
    THEN LookupOutcomes
    ELSE {"ok"}

\* Variant: an empty failure list goes through the loop and the write.
NothingToRetryNever(failed) == FALSE

\* `if not failed:`  (dashboard_sync.py 977)
NothingToRetry(failed) == failed = <<>>

\* retry_failed_uploads(enrollment_id)  (dashboard_sync.py 925-1053)
RetryFailedUploads ==
    /\ Idle
    /\ UNCHANGED enrollment
    /\ \E login \in LoginOutcomes :
      LET n1 == <<LoginCall(login)>>
          Ret(result, calls, store2) ==
              Return("retry_failed_uploads", [enrollment_id |-> 1], result, calls,
                     store2, remote)
      IN
      IF login.out = "exc" THEN Ret(LoginException, n1, store)
      ELSE IF login.out = "notok" THEN Ret(LoginFailed(login), n1, store)
      ELSE \E row \in RowOutcomes :
        IF row = "none" THEN Ret([error |-> "enrollment not found"], n1, store)
        ELSE
        \E check \in IF store.dashboard_tech_id = "None" THEN CheckOutcomes ELSE {"list"} :
        LET looked == store.dashboard_tech_id = "None"
            n2 == IF looked THEN Append(n1, CheckCall(check)) ELSE n1
            dashboard_id == IF looked THEN LookupId(check) ELSE store.dashboard_tech_id
        IN
        IF dashboard_id = "None"
        THEN Ret([error |-> "dashboard technician id not found"], n2, store)
        ELSE IF store.last_upload_report = <<>>
        THEN Ret([error |-> "no last_upload_report available"], n2, store)
        ELSE LET report_obj == store.last_upload_report[1]
                 failed == FailedOf(report_obj)
             IN
             IF NothingToRetry(failed)
             THEN Ret([retried_count |-> 0, remaining_failed |-> 0], n2, store)
             ELSE \E lookup \in LookupsThatMatter(failed) :
                  \E orc \in [1..Len(failed) -> RetryOracles(Len(failed))] :
                    LET w == RetryLoopOver(failed, orc, PathToCategory(lookup), 1,
                                 [net |-> <<>>, still_failed |-> <<>>, retried |-> 0])
                        new_report == NewReport(report_obj, w.retried, w.still_failed)
                    IN  Ret([retried_count |-> w.retried,
                             remaining_failed |-> Len(w.still_failed),
                             still_failed |-> w.still_failed],
                            n2 \o w.net,
                            set_dashboard_sync_info(dashboard_id, new_report))

(***************************************************************************)
(* Single-request strategy (dashboard_sync.py 397-545)                     *)
(***************************************************************************)
\* What the environment does to one document of the single-request sync:
\* file_storage.file_exists, file_storage.read_file
SingleOracles ==
    { o \in [exists : BOOLEAN, read : {"ok", "exc"}] :
        (~o.exists) => (o.read = "ok") }

\* Variant: a file of exactly MAX_BYTES is rejected too.
EncodeOneLimitInclusive(d, o) ==
    LET path == d.file_path
        size == SizeOf(path)
        Failed(e) == [photos |-> <<>>, failed_photos |-> <<e>>]
    IN
    IF ~o.exists THEN Failed([path |-> path, error |-> "missing"])
    ELSE IF o.read = "exc" THEN Failed([path |-> path, error |-> "read_error"])
    ELSE IF size >= MAX_BYTES
    THEN Failed([path |-> path, error |-> "size_exceeded", size |-> size])
    ELSE [photos |-> <<[category |-> d.doc_type, path |-> path]>>,
          failed_photos |-> <<>>]

\* One iteration of the encoding loop (dashboard_sync.py 475-503)
EncodeOne(d, o) ==
    LET path == d.file_path
        size == SizeOf(path)
        Failed(e) == [photos |-> <<>>, failed_photos |-> <<e>>]
    IN
    IF ~o.exists THEN Failed([path |-> path, error |-> "missing"])
    ELSE IF o.read = "exc" THEN Failed([path |-> path, error |-> "read_error"])
    ELSE IF size > MAX_BYTES
    THEN Failed([path |-> path, error |-> "size_exceeded", size |-> size])
    ELSE [photos |-> <<[category |-> d.doc_type, path |-> path]>>,
          failed_photos |-> <<>>]

\* Variant: the loop ends at the first document that cannot be encoded.
RECURSIVE EncodeLoopAbortOnFailure(_, _, _, _)
EncodeLoopAbortOnFailure(ds, orc, i, acc) ==
    IF i > Len(ds) \/ acc.failed_photos # <<>> THEN acc
    ELSE LET one == EncodeOne(ds[i], orc[i]) IN
         EncodeLoopAbortOnFailure(ds, orc, i + 1,
                    [photos |-> acc.photos \o one.photos,
                     failed_photos |-> acc.failed_photos \o one.failed_photos])

\* The encoding loop from document i on (dashboard_sync.py 475-503)
RECURSIVE EncodeLoop(_, _, _, _)
EncodeLoop(ds, orc, i, acc) ==
    IF i > Len(ds) THEN acc
    ELSE LET one == EncodeOne(ds[i], orc[i]) IN
         EncodeLoop(ds, orc, i + 1,
                    [photos |-> acc.photos \o one.photos,
                     failed_photos |-> acc.failed_photos \o one.failed_photos])

\* Answers of POST /api/external/technicians
StatusCodes == {201, 207, 500}

\* A JSON value found under a key of the answer: the key is absent; a
\* falsy value (null, "", {}, 0); a non-empty string; a non-empty object,
\* of which the code reads the keys id and techId ("None": absent or null)
Absent == [kind |-> "absent"]

Falsy == [kind |-> "falsy"]

Str(s) == [kind |-> "string", s |-> s]

Obj(id, techId) == [kind |-> "object", id |-> id, techId |-> techId]

\* a JSON object answer, with the five keys the code reads
JsonObject(technician, technicianCreated, id, technicianId, techId) ==
    [kind |-> "object", technician |-> technician,
     technicianCreated |-> technicianCreated,
     id |-> id, technicianId |-> technicianId, techId |-> techId]

JsonList == [kind |-> "list"]

JsonScalar == [kind |-> "scalar"]

\* an answer whose text is not JSON
NotJson == [kind |-> "not_json", text |-> "<html>"]

IdValues == {"None", DashboardId, "D2"}

TechnicianValues ==
    {Absent, Falsy, Str("Ann")}
      \cup { Obj(id, techId) : id \in IdValues, techId \in {"None", "D2"} }

Answers ==
    {NotJson, JsonList, JsonScalar}
      \cup { JsonObject(technician, technicianCreated, id, technicianId, techId) :
               technician \in TechnicianValues,
               technicianCreated \in {Absent, Obj("D2", "None")},
               id \in IdValues, technicianId \in IdValues,
               techId \in {"None", "D2"} }

\* Python truthiness of a value and `a or b` on ids
Truthy(v) == v.kind \in {"string", "object"}

Or(a, b) == IF a # "None" THEN a ELSE b

\* Variant: the answer is handed on as it came, without the raw-text fallback.
resp_json_as_received(resp) == resp

\* resp_json: resp.json(), or {"raw_text": resp.text} when that raises
\* (dashboard_sync.py 514-518)
resp_json(resp) ==
    IF resp.kind = "not_json"
    THEN [kind |-> "object", raw_text |-> resp.text,
          technician |-> Absent, technicianCreated |-> Absent,
          id |-> "None", technicianId |-> "None", techId |-> "None"]
    ELSE resp

\* tech_id_returned  (dashboard_sync.py 523-529)
tech_id_returned(parsed) ==
    IF parsed.kind # "object" THEN "None"
    ELSE LET tech == IF Truthy(parsed.technician) THEN parsed.technician
                     ELSE IF Truthy(parsed.technicianCreated)
                          THEN parsed.technicianCreated
                          ELSE parsed
         IN  IF tech.kind = "object"
             THEN Or(tech.id, tech.techId)
             ELSE Or(parsed.id, parsed.technicianId)

\* The answers the sync calls of Spec are given, by name: an object with a
\* nested technician object that has an id; an object with a top-level id;
\* an object whose only id is a top-level technicianId; an object without
\* any id; a list; a body that does not parse
BodyShapes == {"technician_id", "top_id", "technicianId", "no_id", "list", "raw_text"}

BodyOf(shape) ==
    CASE shape = "technician_id" ->
             JsonObject(Obj(DashboardId, "None"), Absent, "None", "None", "None")
      [] shape = "top_id" -> JsonObject(Absent, Absent, DashboardId, "None", "None")
      [] shape = "technicianId" -> JsonObject(Absent, Absent, "None", DashboardId, "None")
      [] shape = "no_id" -> JsonObject(Absent, Absent, "None", "None", "None")
      [] shape = "list" -> JsonList
      [] shape = "raw_text" -> NotJson

TechIdReturned(shape) == tech_id_returned(resp_json(BodyOf(shape)))

Is2xx(status_code) == 200 <= status_code /\ status_code < 300

WithFailedPhotos(d, failed_photos) ==
    IF failed_photos = <<>> THEN d
    ELSE [k \in DOMAIN d \cup {"failed_photos"} |->
            IF k = "failed_photos" THEN failed_photos ELSE d[k]]

\* the enrollment row as submitted, and after database.approve_enrollment and
\* database.mark_checklist_task_by_key(enrollment_id, 'approved_synced', True)
Pending == [approved |-> 0, approved_synced |-> FALSE]

Approved == [approved |-> 1, approved_synced |-> TRUE]

\* Variant: only a 207 answer approves.
ApprovalOfPartialOnly(single_result) ==
    IF "error" \in DOMAIN single_result THEN enrollment
    ELSE IF single_result.status_code = 207 THEN Approved
    ELSE enrollment

\* What _handle_approval does with the dict the sync call returned
\* (admin_dashboard.py 383-413, admin_dashboard_v2.py 1090-1132)
ApprovalOf(single_result) ==
    IF "error" \in DOMAIN single_result THEN enrollment
    ELSE LET status_code == single_result.status_code IN
         IF status_code \in {201} \/ (Is2xx(status_code) /\ status_code # 207)
         THEN Approved
         ELSE IF status_code = 207 THEN Approved
         ELSE enrollment

\* database.set_dashboard_sync_info returns, or raises (the database is
\* locked or unreachable); "none": the function is not called
WriteOutcomes == {"ok", "exc"}

\* Variant: the report is persisted whether or not the answer held an id.
PersistsWithoutId(enrollment_id, id_returned) == enrollment_id # 0

\* `if enrollment_id and tech_id_returned:`  (dashboard_sync.py 532)
Persists(enrollment_id, id_returned) == enrollment_id # 0 /\ id_returned # "None"

\* the row after the try block of lines 533-540: an exception of the write
\* is swallowed and leaves the row as it was
AfterWrite(write, dashboard_tech_id, report) ==
    IF write = "ok" THEN set_dashboard_sync_info(dashboard_tech_id, report) ELSE store

\* push_to_dashboard_single_request(record, enrollment_id); `handled` when
\* the call is made by the approval handler, which then acts on the result.
\* last.write tells what became of the call's set_dashboard_sync_info.
SingleRequest(enrollment_id, documents, handled) ==
    \E login \in LoginOutcomes :
      LET n1 == <<LoginCall(login)>>
          RetW(result, calls, write, store2, remote2) ==
              /\ last' = [op |-> "push_to_dashboard_single_request",
                          args |-> [enrollment_id |-> enrollment_id,
                                    documents |-> documents],
                          result |-> result, write |-> write]
              /\ net' = calls
              /\ store' = store2
              /\ remote' = remote2
              /\ UNCHANGED <<rr, record, docs, files, fn, push, segno>>
              /\ enrollment' = IF handled THEN ApprovalOf(result) ELSE enrollment
          Ret(result, calls, store2, remote2) ==
              RetW(result, calls, "none", store2, remote2)
      IN
      IF login.out = "exc" THEN Ret(LoginException, n1, store, remote)
      ELSE IF login.out = "notok" THEN Ret(LoginFailed(login), n1, store, remote)
      ELSE IF record.tech_id = "" THEN Ret([error |-> "missing tech_id"], n1, store, remote)
      ELSE IF enrollment_id = 0 /\ documents # <<>>
      THEN \* line 477: d.get(...) on an entry that is not a dict, outside
           \* every try block
           Ret([raised |-> "AttributeError"], n1, store, remote)
      ELSE LET ds == IF enrollment_id # 0 THEN docs ELSE <<>> IN
        \E orc \in [1..Len(ds) -> SingleOracles] :
          LET enc == EncodeLoop(ds, orc, 1, [photos |-> <<>>, failed_photos |-> <<>>])
              photos == enc.photos
              failed_photos == enc.failed_photos
              sent == [i \in 1..Len(photos) |-> photos[i].path]
              PostCall(out) == [ep |-> "external_create", path |-> "-",
                                out |-> out, sent |-> sent]
          IN
          \/ Ret([error |-> "request failed: timeout", failed_photos |-> failed_photos],
                 Append(n1, PostCall("exc")), store, remote)
          \/ \E status_code \in StatusCodes, shape \in BodyShapes :
               LET result == WithFailedPhotos(
                       [status_code |-> status_code, response |-> shape,
                        photo_count |-> Len(photos)], failed_photos)
                   id_returned == TechIdReturned(shape)
                   report == WithFailed([photo_count |-> Len(photos), response |-> shape],
                                        failed_photos)
                   created == IF Is2xx(status_code) THEN 1 ELSE 0
               IN
               /\ remote + created <= MaxRemote
               /\ \E write \in IF Persists(enrollment_id, id_returned)
                                THEN WriteOutcomes ELSE {"none"} :
                    RetW(result,
                         Append(n1, PostCall(IF Is2xx(status_code) THEN "ok" ELSE "notok")),
                         write,
                         AfterWrite(write, id_returned, report),
                         remote + created)

\* record['documents'] of a record that does not come from the database:
\* no documents, or a list of bare path strings
RecordDocuments == {<<>>, <<"p1">>}

\* push_to_dashboard_single_request(record) called without an enrollment id:
\* the documents are those of the record
PushToDashboardSingleRequest ==
    /\ Idle
    /\ \E documents \in RecordDocuments : SingleRequest(0, documents, FALSE)

\* _handle_approval(row, enrollment_id): the "Approve & Sync to Dashboard"
\* button, offered while the enrollment is not approved, calls the
\* single-request sync with the enrollment id and approves on its result
HandleApproval ==
    /\ Idle
    /\ enrollment.approved = 0
    /\ SingleRequest(1, <<>>, TRUE)

\* The script run ends (st.rerun() after the handler): the result dict and
\* the session of the call are dropped
Rerun ==
    /\ ~Idle
    /\ last' = NoCall
    /\ net' = <<>>
    /\ UNCHANGED <<rr, record, docs, files, store, enrollment, remote, fn, push, segno>>

Init ==
    /\ rr = RRIdle
    /\ record \in [tech_id : {"", "T1"}]
    /\ docs \in DocLists
    /\ files \in FileSizes(Len(docs))
    /\ store = [dashboard_tech_id |-> "None", last_upload_report |-> <<>>]
    /\ enrollment = Pending
    /\ remote = 0
    /\ net = <<>>
    /\ last = NoCall
    /\ fn = FnIdle
    /\ push = <<>>
    /\ segno = SegnoIdle

Next ==
    \/ PushToDashboard
    \/ UploadPhotosForTechnician
    \/ RetryFailedUploads
    \/ PushToDashboardSingleRequest
    \/ HandleApproval
    \/ Rerun

Spec == Init /\ [][Next]_vars

(***************************************************************************)
(* The sync calls on an enrollment whose persisted report lists paths that *)
(* are not rows of its documents table: the report of a push_to_dashboard  *)
(* that took its paths from the record's *_paths lists (dashboard_sync.py  *)
(* 234-239), or of a sync made before the rows were replaced.              *)
(***************************************************************************)
StaleReport ==
    [photo_count |-> 0,
     failed_uploads |-> <<[path |-> "p1", reason |-> "missing"],
                          [path |-> "p2", reason |-> "status_500"]>>]

InitStale ==
    /\ rr = RRIdle
    /\ record = [tech_id |-> "T1"]
    /\ docs \in { SubSeq(DocRows, 1, n) : n \in 0..1 }
    /\ files \in FileSizes(Len(docs))
    /\ store = [dashboard_tech_id |-> DashboardId, last_upload_report |-> <<StaleReport>>]
    /\ enrollment = Pending
    /\ remote = 1
    /\ net = <<>>
    /\ last = NoCall
    /\ fn = FnIdle
    /\ push = <<>>
    /\ segno = SegnoIdle

SpecStale == InitStale /\ [][Next]_vars

(***************************************************************************)
(* The end of push_to_dashboard_single_request on its own: what it makes   *)
(* of the answer to the create request (dashboard_sync.py 513-545)         *)
(***************************************************************************)
InitResponse ==
    /\ rr = RRIdle
    /\ SyncIdle
    /\ fn \in [name : {"none"}, status_code : StatusCodes, resp : Answers]

\* the result dict and the id under which the report is persisted
HandleAnswer ==
    /\ fn.name = "none"
    /\ fn' = [name |-> "push_to_dashboard_single_request",
              status_code |-> fn.status_code,
              resp |-> fn.resp,
              result |-> [status_code |-> fn.status_code,
                          response |-> resp_json(fn.resp),
                          photo_count |-> 0],
              tech_id_returned |-> tech_id_returned(resp_json(fn.resp))]
    /\ UNCHANGED <<rr, syncVars>>

NextResponse == HandleAnswer

SpecResponse == InitResponse /\ [][NextResponse]_vars

(***************************************************************************)
(* The persisted report on its own: set_dashboard_sync_info writes         *)
(* json.dumps(report) into the last_upload_report column, which is TEXT    *)
(* under SQLite and JSONB under PostgreSQL; retry_failed_uploads reads the *)
(* column back.  JSON text is the sequence of its tokens.                  *)
(***************************************************************************)
MaxFailed == 2

Punct(c) == [t |-> c]

StrTok(s) == [t |-> "string", s |-> s]

NumTok(n) == [t |-> "number", n |-> n]

\* the keys of a report and of its entries, in the order the code sets them
KeyOrder == <<"photo_count", "failed_uploads", "response",
              "path", "reason", "error", "size">>

\* keys that hold an int; failed_uploads holds a list of dicts; every other
\* key holds a str or None
NumberKeys == {"photo_count", "size"}

KeysOf(d) == SelectSeq(KeyOrder, LAMBDA k : k \in DOMAIN d)

RECURSIVE DumpMembersPathOnly(_, _, _)
RECURSIVE DumpMembers(_, _, _)
RECURSIVE DumpElements(_, _)

DumpDict(d) == <<Punct("{")>> \o DumpMembers(d, KeysOf(d), 1) \o <<Punct("}")>>

DumpList(l) == <<Punct("[")>> \o DumpElements(l, 1) \o <<Punct("]")>>

DumpValue(k, v) ==
    IF k \in NumberKeys THEN <<NumTok(v)>>
    ELSE IF k = "failed_uploads" THEN DumpList(v)
    ELSE IF v = "None" THEN <<Punct("null")>>
    ELSE <<StrTok(v)>>

DumpElements(l, i) ==
    IF i > Len(l) THEN <<>>
    ELSE (IF i > 1 THEN <<Punct(",")>> ELSE <<>>)
            \o DumpDict(l[i]) \o DumpElements(l, i + 1)

\* Variant: of a failed entry only the path is written.
DumpMembersPathOnly(d, ks, i) ==
    IF i > Len(ks) THEN <<>>
    ELSE IF ks[i] \in {"reason", "error", "size"}
    THEN DumpMembersPathOnly(d, ks, i + 1)
    ELSE (IF i > 1 THEN <<Punct(",")>> ELSE <<>>)
            \o <<StrTok(ks[i]), Punct(":")>> \o DumpValue(ks[i], d[ks[i]])
            \o DumpMembersPathOnly(d, ks, i + 1)

DumpMembers(d, ks, i) ==
    IF i > Len(ks) THEN <<>>
    ELSE (IF i > 1 THEN <<Punct(",")>> ELSE <<>>)
            \o <<StrTok(ks[i]), Punct(":")>> \o DumpValue(ks[i], d[ks[i]])
            \o DumpMembers(d, ks, i + 1)

\* json.dumps(report)
json_dumps(report) == DumpDict(report)

EmptyDict == [k \in {} |-> k]

RECURSIVE ParseValue(_, _)
RECURSIVE ParseMembers(_, _, _)
RECURSIVE ParseElements(_, _, _)

\* the value that starts at token i, and the position after it
ParseValue(toks, i) ==
    CASE toks[i].t = "string" -> [v |-> toks[i].s, next |-> i + 1]
      [] toks[i].t = "number" -> [v |-> toks[i].n, next |-> i + 1]
      [] toks[i].t = "null" -> [v |-> "None", next |-> i + 1]
      [] toks[i].t = "{" -> ParseMembers(toks, i + 1, EmptyDict)
      [] toks[i].t = "[" -> ParseElements(toks, i + 1, <<>>)

ParseMembers(toks, i, acc) ==
    IF toks[i].t = "}" THEN [v |-> acc, next |-> i + 1]
    ELSE IF toks[i].t = "," THEN ParseMembers(toks, i + 1, acc)
    ELSE LET val == ParseValue(toks, i + 2)
         IN  ParseMembers(toks, val.next, Put(acc, toks[i].s, val.v))

ParseElements(toks, i, acc) ==
    IF toks[i].t = "]" THEN [v |-> acc, next |-> i + 1]
    ELSE IF toks[i].t = "," THEN ParseElements(toks, i + 1, acc)
    ELSE LET val == ParseValue(toks, i)
         IN  ParseElements(toks, val.next, Append(acc, val.v))

\* json.loads(text)
json_loads(text) == ParseValue(text, 1).v

\* the failed entries the sync calls write: those of the two-phase sync and
\* of the resume carry a reason, those of the single-request sync an error,
\* the size of an oversized file, and None for the path of an entry without
\* file_path
ReportEntries ==
    { [path |-> path, reason |-> reason] :
          path \in {"p1", "p2"}, reason \in {"missing", "status_500"} }
      \cup { [path |-> path, error |-> "missing"] : path \in {"p1", "p2"} }
      \cup { [path |-> "p1", error |-> "size_exceeded", size |-> MAX_BYTES + 1],
             [path |-> "None", error |-> "missing path"] }

RECURSIVE ListsOver(_, _)
ListsOver(S, n) ==
    IF n = 0 THEN {<<>>}
    ELSE LET shorter == ListsOver(S, n - 1)
         IN  shorter \cup { Append(l, e) : l \in { x \in shorter : Len(x) = n - 1 }, e \in S }

\* report of the two-phase sync and of the resume (dashboard_sync.py 910-912,
\* 1043-1046) and of the single-request sync (532-536)
Reports ==
    { WithFailed(base, failed) :
          base \in { [photo_count |-> 0], [photo_count |-> 1],
                     [photo_count |-> 1, response |-> "top_id"] },
          failed \in ListsOver(ReportEntries, MaxFailed) }

Backends == {"sqlite", "postgres"}

InitReport ==
    /\ rr = RRIdle
    /\ SyncIdle
    /\ fn \in [name : {"none"}, backend : Backends, report : Reports]

\* set_dashboard_sync_info(enrollment_id, dashboard_tech_id, report): the
\* column then holds the text, or under PostgreSQL the value the text denotes
WriteReport ==
    /\ fn.name = "none"
    /\ fn' = [name |-> "set_dashboard_sync_info",
              backend |-> fn.backend,
              report |-> fn.report,
              text |-> IF fn.backend = "sqlite"
                       THEN <<json_dumps(fn.report)>> ELSE <<>>,
              jsonb |-> IF fn.backend = "postgres"
                        THEN <<json_loads(json_dumps(fn.report))>> ELSE <<>>]
    /\ UNCHANGED <<rr, syncVars>>

\* retry_failed_uploads reads record['last_upload_report']: a str is decoded,
\* a dict is taken as it is (dashboard_sync.py 965-976)
ReadReport ==
    /\ fn.name = "set_dashboard_sync_info"
    /\ LET report_obj == IF fn.text # <<>> THEN json_loads(fn.text[1])
                         ELSE fn.jsonb[1]
       IN  fn' = [name |-> "retry_failed_uploads",
                  backend |-> fn.backend,
                  report |-> fn.report,
                  report_obj |-> report_obj,
                  failed |-> FailedOf(report_obj)]
    /\ UNCHANGED <<rr, syncVars>>

NextReport == WriteReport \/ ReadReport

SpecReport == InitReport /\ [][NextReport]_vars

(***************************************************************************)
(* The payload builders on their own.  An optional str is None (<<>>) or   *)
(* <<s>>; a date text is the sequence of its characters, so that           *)
(* _format_date is computed on what the text holds.                        *)
(***************************************************************************)
None == <<>>

Some(s) == <<s>>

Digits == <<"0", "1", "2", "3", "4", "5", "6", "7", "8", "9">>

IsDigit(c) == \E i \in 1..10 : Digits[i] = c

Val(c) == (CHOOSE i \in 1..10 : Digits[i] = c) - 1

\* the number written in the two characters of s from position i
Num2(s, i) == Val(s[i]) * 10 + Val(s[i + 1])

AllDigits(s, from, to) == \A i \in from..to : IsDigit(s[i])

DaysIn(year, month) ==
    IF month \in {4, 6, 9, 11} THEN 30
    ELSE IF month # 2 THEN 31
    ELSE IF year % 4 = 0 /\ (year % 100 # 0 \/ year % 400 = 0) THEN 29
    ELSE 28

\* datetime.fromisoformat accepts s: YYYY-MM-DD, alone or followed by one
\* separator character and HH:MM:SS
fromisoformat_ok(s) ==
    /\ Len(s) \in {10, 19}
    /\ AllDigits(s, 1, 4) /\ s[5] = "-"
    /\ AllDigits(s, 6, 7) /\ s[8] = "-"
    /\ AllDigits(s, 9, 10)
    /\ LET year == Num2(s, 1) * 100 + Num2(s, 3)
           month == Num2(s, 6)
           day == Num2(s, 9)
       IN  /\ year >= 1
           /\ month \in 1..12
           /\ day \in 1..DaysIn(year, month)
    /\ (Len(s) = 19)
          => ( /\ AllDigits(s, 12, 13) /\ s[14] = ":"
               /\ AllDigits(s, 15, 16) /\ s[17] = ":"
               /\ AllDigits(s, 18, 19)
               /\ Num2(s, 12) < 24 /\ Num2(s, 15) < 60 /\ Num2(s, 18) < 60 )

\* dt.strftime("%Y-%m-%d") of the datetime that s denotes
strftime_ymd(s) == SubSeq(s, 1, 10)

\* _format_date(date_str)  (dashboard_sync.py 98-106)
format_date(date_str) ==
    IF date_str = None \/ date_str = Some(<<>>) THEN None
    ELSE IF fromisoformat_ok(date_str[1]) THEN Some(strftime_ymd(date_str[1]))
    ELSE None

\* a or ""
OrEmpty(a, empty) == IF a = None \/ a = Some(empty) THEN Some(empty) ELSE a

\* bool(a) of an optional str
NonEmpty(a, empty) == a # None /\ a # Some(empty)

\* 2025-12-31, 2025-12-31T10:30:00, 12/31/2025, 2025-02-30, 2025-12-31Z
IsoDate == <<"2", "0", "2", "5", "-", "1", "2", "-", "3", "1">>

IsoDateTime == <<"2", "0", "2", "5", "-", "1", "2", "-", "3", "1", "T", "1", "0", ":", "3", "0", ":", "0", "0">>

SlashDate == <<"1", "2", "/", "3", "1", "/", "2", "0", "2", "5">>

NoSuchDay == <<"2", "0", "2", "5", "-", "0", "2", "-", "3", "0">>

DateWithZone == <<"2", "0", "2", "5", "-", "1", "2", "-", "3", "1", "Z">>

DateTexts ==
    { IsoDate, IsoDateTime, SlashDate, NoSuchDay, DateWithZone }

\* the columns of the enrollment row that the builders read for the dates
\* and the optional fields
PayloadRecords ==
    [insurance_exp : {None, Some(<<>>)} \cup { Some(t) : t \in DateTexts },
     registration_exp : {None, Some(IsoDate), Some(SlashDate)},
     make : {None, Some(""), Some("Ford")},
     model : {None, Some("Focus")},
     year : {None, Some("2020")},
     referred_by : {None, Some(""), Some("Ann")}]

\* {k: v for k, v in payload.items() if v is not None}
NotNone(payload) ==
    [k \in { x \in DOMAIN payload : payload[x] # None } |-> payload[k]]

\* payload[key] = v, if v is truthy
PutIf(payload, key, v, empty) ==
    IF NonEmpty(v, empty) THEN Put(payload, key, v) ELSE payload

\* push_to_dashboard: payload  (dashboard_sync.py 144-203)
PushPayload(r) ==
    [referredBy |-> OrEmpty(r.referred_by, ""),
     vehicleMake |-> r.make,
     vehicleModel |-> r.model,
     vehicleYear |-> r.year,
     insuranceExpiration |-> format_date(r.insurance_exp),
     registrationExpiration |-> format_date(r.registration_exp)]

\* push_to_dashboard_single_request: payload  (dashboard_sync.py 426-460)
SinglePayload(r) ==
    LET p0 == [insuranceExpiration |-> OrEmpty(format_date(r.insurance_exp), <<>>),
               registrationExpiration |-> OrEmpty(format_date(r.registration_exp), <<>>)]
        p1 == PutIf(p0, "vehicleMake", r.make, "")
        p2 == PutIf(p1, "vehicleModel", r.model, "")
        p3 == PutIf(p2, "vehicleYear", r.year, "")
    IN  PutIf(p3, "referredBy", OrEmpty(r.referred_by, ""), "")

\* create_technician_on_dashboard: payload  (dashboard_sync.py 726-741)
CreatePayload(r) ==
    [referredBy |-> OrEmpty(r.referred_by, ""),
     vehicleMake |-> r.make,
     vehicleModel |-> r.model,
     vehicleYear |-> r.year,
     insuranceExpiration |-> format_date(r.insurance_exp),
     registrationExpiration |-> format_date(r.registration_exp)]

\* a or b, with b absent from the row
OrAbsent(a, empty) == IF NonEmpty(a, empty) THEN a ELSE None

\* push_dashboard_update: payload  (dashboard_sync.py 653-672)
UpdatePayload(r) ==
    NotNone([referredBy |-> OrEmpty(r.referred_by, ""),
             vehicleMake |-> OrAbsent(r.make, ""),
             vehicleModel |-> OrAbsent(r.model, ""),
             vehicleYear |-> OrAbsent(r.year, ""),
             insuranceExpiration |-> format_date(r.insurance_exp),
             registrationExpiration |-> format_date(r.registration_exp)])

InitPayload ==
    /\ rr = RRIdle
    /\ SyncIdle
    /\ fn \in [name : {"none"}, record : PayloadRecords]

Built(name, payload) ==
    /\ fn.name = "none"
    /\ fn' = [name |-> name, record |-> fn.record, payload |-> payload]
    /\ UNCHANGED <<rr, syncVars>>

BuildPush == Built("push_to_dashboard", PushPayload(fn.record))

BuildSingle == Built("push_to_dashboard_single_request", SinglePayload(fn.record))

BuildCreate == Built("create_technician_on_dashboard", CreatePayload(fn.record))

BuildUpdate == Built("push_dashboard_update", UpdatePayload(fn.record))

NextPayload == BuildPush \/ BuildSingle \/ BuildCreate \/ BuildUpdate

SpecPayload == InitPayload /\ [][NextPayload]_vars

(***************************************************************************)
(* push_to_dashboard calls running at the same time for the same techId    *)
(* (two admins approving, or one approval submitted twice): each call is   *)
(* its own script run with its own session; a step is one request and the  *)
(* code up to the next request.  The documents are left out (docs is       *)
(* empty): the calls end with the create.                                  *)
(***************************************************************************)
Concurrent == 2

Started == [at |-> "login", check |-> "None", result |-> [none |-> TRUE]]

InitRace ==
    /\ rr = RRIdle
    /\ record = [tech_id |-> "T1"]
    /\ docs = <<>>
    /\ files = <<>>
    /\ store = [dashboard_tech_id |-> "None", last_upload_report |-> <<>>]
    /\ enrollment = Pending
    /\ remote = 0
    /\ net = <<>>
    /\ last = NoCall
    /\ fn = FnIdle
    /\ push = [p \in 1..Concurrent |-> Started]
    /\ segno = SegnoIdle

\* call p moves to `at`, or returns `result`, and the dashboard then holds
\* remote2 records
Moves(p, at, check, result, remote2) ==
    /\ push' = [push EXCEPT ![p] = [at |-> at, check |-> check, result |-> result]]
    /\ remote' = remote2
    /\ UNCHANGED <<rr, record, docs, files, store, enrollment, net, last, fn, segno>>

\* POST /api/login  (dashboard_sync.py 131-142)
RaceLogin(p) ==
    /\ push[p].at = "login"
    /\ \E login \in LoginOutcomes :
         IF login.out = "exc"
         THEN Moves(p, "done", "None", [error |-> "timeout"], remote)
         ELSE IF login.out = "notok"
         THEN Moves(p, "done", "None", LoginFailedWithStatus(login), remote)
         ELSE Moves(p, "check", "None", push[p].result, remote)

\* GET /api/technicians?techId=  (dashboard_sync.py 157-170): the answer
\* tells what the dashboard holds when the request is served
RaceCheck(p) ==
    /\ push[p].at = "check"
    /\ \E check \in CheckOutcomes :
         LET seen == CheckCall(check).out IN
         IF check = "exc"
         THEN Moves(p, "done", seen, [error |-> "timeout"], remote)
         ELSE IF ExistsOnDashboard(check)
         THEN Moves(p, "done", seen, [status |-> "exists", photo_count |-> 0], remote)
         ELSE Moves(p, "create", seen, push[p].result, remote)

\* Variant: check and create are one step; a create for a techId the
\* dashboard already holds ends in "exists".
RaceCreateIfAbsent(p) ==
    /\ push[p].at = "create"
    /\ IF remote > 0
       THEN Moves(p, "done", push[p].check, [status |-> "exists", photo_count |-> 0],
                  remote)
       ELSE Moves(p, "done", push[p].check, [status |-> "created", photo_count |-> 0],
                  remote + 1)

\* POST /api/technicians  (dashboard_sync.py 205-228)
RaceCreate(p) ==
    /\ push[p].at = "create"
    /\ \E create \in CreateOutcomes :
         LET seen == push[p].check IN
         IF create = "exc"
         THEN Moves(p, "done", seen, [error |-> "timeout"], remote)
         ELSE IF create = "notok"
         THEN Moves(p, "done", seen,
                    [error |-> "dashboard responded 500", body |-> Truncated(ErrorText)],
                    remote)
         ELSE IF create = "ok_badjson"
         THEN Moves(p, "done", seen, [error |-> "Failed to parse technician response"],
                    remote)
         ELSE IF create = "ok_noid"
         THEN Moves(p, "done", seen, [error |-> "No technician ID in response"], remote)
         ELSE Moves(p, "done", seen, [status |-> "created", photo_count |-> 0],
                    remote + 1)

NextRace == \E p \in 1..Concurrent : RaceLogin(p) \/ RaceCheck(p) \/ RaceCreate(p)

SpecRace == InitRace /\ [][NextRace]_vars

(***************************************************************************)
(* The Segno client (segno_client.py): one SegnoClient per process, whose  *)
(* authenticated flag outlives a submit_enrollment call while the session  *)
(* it stands for may expire on the server.                                 *)
(***************************************************************************)
\* What the two requests of login() end in: a 200 answer away from the
\* login page, a 200 answer on the login page that shows a logout link, a
\* 200 answer on the login page with a PHPSESSID cookie, a 200 answer on the
\* login page with neither, another status, an exception
SegnoLogins == {"home", "logout_text", "cookie", "login_page", "status_500", "exc"}

\* the cases in which login() sets authenticated and returns True
\* (segno_client.py 63-78)
LoginAccepted(l) == l \in {"home", "logout_text", "cookie"}

\* SegnoClient.login (segno_client.py 24-88): the client after the call and
\* the value returned; without credentials no request is made
login(client, l) ==
    IF ~client.credentials THEN [client |-> client, ok |-> FALSE, used |-> 0]
    ELSE [client |-> [client EXCEPT
                        !.calls = Append(@, [ep |-> "login", out |-> l]),
                        !.authenticated = IF LoginAccepted(l) THEN TRUE ELSE @],
          ok |-> LoginAccepted(l),
          used |-> 1]

\* An answer to the submit POST after redirects: its status, the page it
\* ends on ("login": module=Users&action=Login; "record": a URL with
\* record=<id>; "detail": any other) and whether its body names a record
SegnoAnswer(status_code, url, body_record) ==
    [out |-> "answer", status_code |-> status_code, url |-> url,
     body_record |-> body_record]

\* the submit POST ends in an answer, in requests.Timeout or in another
\* exception
SegnoSubmits ==
    { SegnoAnswer(200, "record", FALSE), SegnoAnswer(200, "detail", TRUE),
      SegnoAnswer(200, "detail", FALSE), SegnoAnswer(200, "login", FALSE),
      SegnoAnswer(401, "detail", FALSE), SegnoAnswer(500, "detail", FALSE),
      [out |-> "timeout", status_code |-> 0, url |-> "none", body_record |-> FALSE],
      [out |-> "exc", status_code |-> 0, url |-> "none", body_record |-> FALSE] }

\* Variant: only the 401 status counts as an expired session.
is_login_redirect_status_only(response) == response.status_code = 401

\* is_login_redirect  (segno_client.py 240-243)
is_login_redirect(response) ==
    response.status_code = 401 \/ response.url = "login"

\* segno_id  (segno_client.py 266-278)
segno_id(response) ==
    IF response.url = "record" THEN "S1"
    ELSE IF response.body_record THEN "S2"
    ELSE "None"

\* the dict submit_enrollment returns
SegnoResult(success, status_code, error, segno_record_id) ==
    [success |-> success, status_code |-> status_code, error |-> error,
     segno_record_id |-> segno_record_id]

\* The answers one top-level call can get: to its logins and to its submit
\* POSTs, in the order in which they are made
SegnoOracles == [logins : [1..2 -> SegnoLogins], submits : [1..2 -> SegnoSubmits]]

\* SegnoClient.submit_enrollment(enrollment, retry_count)
\* (segno_client.py 171-309); li and si count the answers used so far
RECURSIVE submit_enrollment(_, _, _, _, _)
submit_enrollment(client, retry_count, o, li, si) ==
    LET ensured == IF ~client.authenticated THEN login(client, o.logins[li + 1])
                   ELSE [client |-> client, ok |-> TRUE, used |-> 0]
        Done(c, result) == [c EXCEPT !.result = result]
    IN
    IF ~ensured.ok
    THEN Done(ensured.client,
              SegnoResult(FALSE, 401, "Failed to authenticate with Segno", "None"))
    ELSE LET response == o.submits[si + 1]
             posted == [ensured.client EXCEPT
                          !.calls = Append(@, [ep |-> "submit", out |-> response.out,
                                               status_code |-> response.status_code,
                                               url |-> response.url])]
         IN
         IF response.out = "timeout"
         THEN Done(posted, SegnoResult(FALSE, 408, "Request timed out", "None"))
         ELSE IF response.out = "exc"
         THEN Done(posted, SegnoResult(FALSE, 500, "connection error", "None"))
         ELSE IF is_login_redirect(response) /\ retry_count < 1
         THEN LET again == login([posted EXCEPT !.authenticated = FALSE],
                                 o.logins[li + ensured.used + 1])
              IN  IF again.ok
                  THEN submit_enrollment(again.client, retry_count + 1, o,
                                         li + ensured.used + again.used, si + 1)
                  ELSE Done(again.client,
                            SegnoResult(FALSE, 401,
                                "Session expired and re-authentication failed", "None"))
         ELSE IF is_login_redirect(response)
         THEN Done(posted,
                   SegnoResult(FALSE, 401, "Authentication failed after retry", "None"))
         ELSE IF response.status_code = 200
         THEN Done(posted, SegnoResult(TRUE, 200, "None", segno_id(response)))
         ELSE Done(posted,
                   SegnoResult(FALSE, response.status_code,
                       "Unexpected response status: " \o ToString(response.status_code),
                       "None"))

\* the client as constructed, with or without SEGNO_USERNAME/SEGNO_PASSWORD
InitSegno ==
    /\ rr = RRIdle
    /\ record = [tech_id |-> "T1"]
    /\ docs = <<>>
    /\ files = <<>>
    /\ store = [dashboard_tech_id |-> "None", last_upload_report |-> <<>>]
    /\ enrollment = Pending
    /\ remote = 0
    /\ net = <<>>
    /\ last = NoCall
    /\ fn = FnIdle
    /\ push = <<>>
    /\ segno \in { [SegnoIdle EXCEPT !.credentials = c] : c \in BOOLEAN }

\* submit_enrollment_to_segno(enrollment): one top-level call on the
\* singleton client (segno_client.py 322-333)
SubmitEnrollmentToSegno ==
    /\ segno.result = SegnoIdle.result
    /\ \E o \in SegnoOracles : segno' = submit_enrollment(segno, 0, o, 0, 0)
    /\ UNCHANGED <<rr, record, docs, files, store, enrollment, remote, net, last, fn,
                   push>>

\* the caller takes the result; the client stays in the process with its
\* authenticated flag
SegnoReturn ==
    /\ segno.result # SegnoIdle.result
    /\ segno' = [segno EXCEPT !.calls = <<>>, !.result = SegnoIdle.result]
    /\ UNCHANGED <<rr, record, docs, files, store, enrollment, remote, net, last, fn,
                   push>>

NextSegno == SubmitEnrollmentToSegno \/ SegnoReturn

SpecSegno == InitSegno /\ [][NextSegno]_vars

(***************************************************************************)
(* Properties                                                              *)
(***************************************************************************)
HasKey(d, k) == k \in DOMAIN d

CallsTo(n, eps) == Cardinality({ i \in 1..Len(n) : n[i].ep \in eps })

PathsOf(failed) == [i \in 1..Len(failed) |-> failed[i].path]

TwoPhaseOps == {"push_to_dashboard", "upload_photos_for_technician"}

CreateOps == {"push_to_dashboard", "push_to_dashboard_single_request"}

\* no call raised, the login succeeded and the exists check, if made,
\* answered with the list of records the dashboard holds
Healthy(n) ==
    \A i \in 1..Len(n) :
        /\ n[i].out # "exc"
        /\ (n[i].ep = "login") => (n[i].out = "ok")
        /\ (n[i].ep = "check") => (n[i].out \in {"list_empty", "list_nonempty"})

\* documents whose PUT succeeded in the calls n
UploadedPaths(n) ==
    { n[i].path : i \in { j \in 1..Len(n) : n[j].ep = "put" /\ n[j].out = "ok" } }

\* documents with a successful individual registration in the calls n
RegisteredPaths(n) ==
    { n[i].path : i \in { j \in 1..Len(n) : n[j].ep = "photos" /\ n[j].out = "ok" } }

\* the individual registration calls made for document p
PhotoCalls(n, p) == SelectSeq(n, LAMBDA c : c.ep = "photos" /\ c.path = p)

BatchFailedInLog(n) ==
    \E i \in 1..Len(n) : n[i].ep = "batch" /\ n[i].out \in {"notok", "exc"}

\* C1 (as claimed): a sync call, of either strategy, made when the
\* technician id already exists on the dashboard issues no create call and
\* returns status 'exists'.
C1_IdempotentCreate ==
    [][ ( /\ Idle
          /\ remote > 0
          /\ record.tech_id # ""
          /\ last'.op \in CreateOps
          /\ Healthy(net') )
        => ( /\ CallsTo(net', {"create", "external_create"}) = 0
             /\ remote' = remote
             /\ HasKey(last'.result, "status")
             /\ last'.result.status = "exists" ) ]_vars

\* C2: in push_to_dashboard, when the exists check answers 2xx with a
\* non-empty list, the call returns {status: exists, photo_count: 0} and
\* issues no create, upload-URL, PUT, batch or registration call.
C2_ExistsIsNoOp ==
    ( /\ last.op = "push_to_dashboard"
      /\ \E i \in 1..Len(net) : net[i].ep = "check" /\ net[i].out = "list_nonempty" )
    => ( /\ last.result = [status |-> "exists", photo_count |-> 0]
         /\ CallsTo(net, {"create", "upload_url", "put", "batch", "photos"}) = 0 )

C2_Witness ==
    /\ last.op = "push_to_dashboard"
    /\ Len(docs) = 2
    /\ HasKey(last.result, "status")
    /\ last.result.status = "exists"
    /\ Len(net) = 2

\* C3: a resume that re-attempts the failed list F of a report with
\* photo_count n and succeeds exactly for the documents S persists a report
\* whose failed_uploads are the paths of F outside S, in order, and whose
\* photo_count is n + |S|.
C3_ResumeStep ==
    ( /\ Idle
      /\ last'.op = "retry_failed_uploads"
      /\ HasKey(last'.result, "still_failed") )
    => LET old == store.last_upload_report[1]
           new == store'.last_upload_report[1]
           F == PathsOf(FailedOf(old))
           S == RegisteredPaths(net')
       IN  /\ S \subseteq { F[i] : i \in 1..Len(F) }
           /\ PathsOf(FailedOf(new)) = SelectSeq(F, LAMBDA p : p \notin S)
           /\ new.photo_count = old.photo_count + Cardinality(S)

C4_CleanResumeNoNetwork ==
    [][ ( /\ Idle
          /\ store.last_upload_report # <<>>
          /\ FailedOf(store.last_upload_report[1]) = <<>>
          /\ last'.op = "retry_failed_uploads" )
        => ( /\ net' = <<>>
             /\ last'.result = [retried_count |-> 0, remaining_failed |-> 0] ) ]_vars

\* C5: in push_to_dashboard and upload_photos_for_technician, when the batch
\* registration answers non-2xx or raises, every uploaded entry gets an
\* individual registration through the retry wrapper (calls until one
\* succeeds or three have failed) and the call returns a result, not an
\* error.
C5_FallbackAlwaysAttempted ==
    ( last.op \in TwoPhaseOps /\ BatchFailedInLog(net) )
    => ( /\ \A p \in UploadedPaths(net) :
               LET pc == PhotoCalls(net, p) IN
               /\ Len(pc) >= 1
               /\ pc[Len(pc)].out = "ok" \/ Len(pc) = Attempts
               /\ \A i \in 1..(Len(pc) - 1) : pc[i].out # "ok"
         /\ HasKey(last.result, "photo_count")
         /\ ~HasKey(last.result, "error") )

C5_Witness ==
    /\ last.op \in TwoPhaseOps
    /\ \E i \in 1..Len(net) : net[i].ep = "batch" /\ net[i].out = "exc"
    /\ Cardinality(UploadedPaths(net)) = 2
    /\ Cardinality(RegisteredPaths(net)) = 1

\* C6: after a failed batch registration, photo_count is the number of
\* uploaded entries whose individual registration succeeded, every entry
\* whose individual registration failed is in failed_uploads exactly once
\* with the error of its last attempt as reason, and no registered entry is
\* in failed_uploads.
C6_FallbackAccounting ==
    ( /\ last.op \in TwoPhaseOps
      /\ BatchFailedInLog(net)
      /\ HasKey(last.result, "photo_count") )
    => LET failed == FailedOf(last.result)
           ok == RegisteredPaths(net)
           bad == UploadedPaths(net) \ ok
           Entries(p) == { i \in 1..Len(failed) : failed[i].path = p }
       IN  /\ last.result.photo_count = Cardinality(ok)
           /\ \A p \in bad :
                /\ Cardinality(Entries(p)) = 1
                /\ \A i \in Entries(p) :
                     LET pc == PhotoCalls(net, p) IN
                     failed[i].reason = ErrorOf(pc[Len(pc)].out)
           /\ \A p \in ok : Entries(p) = {}

C6_Witness ==
    /\ last.op = "push_to_dashboard"
    /\ \E i \in 1..Len(net) : net[i].ep = "batch" /\ net[i].out = "notok"
    /\ Cardinality(UploadedPaths(net)) = 2
    /\ Cardinality(RegisteredPaths(net)) = 1
    /\ HasKey(last.result, "failed_uploads")
    /\ last.result.photo_count = 1

\* the number of documents the last full sync call attempted
Attempted ==
    IF last.op \in TwoPhaseOps THEN Len(PathsByCategory(docs))
    ELSE IF last.args.enrollment_id # 0 THEN Len(docs) ELSE 0

\* the failure list of the dict the last call returned
ReturnedFailures ==
    IF HasKey(last.result, "failed_uploads") THEN last.result.failed_uploads
    ELSE IF HasKey(last.result, "failed_photos") THEN last.result.failed_photos
    ELSE IF HasKey(last.result, "still_failed") THEN last.result.still_failed
    ELSE <<>>

\* C7 (as claimed): for the report of every full sync call that got to its
\* documents, photo_count + len(failed_uploads) is the number of documents
\* attempted, whatever the dashboard answers.
C7_CountInvariant ==
    ( /\ last.op \in TwoPhaseOps \cup {"push_to_dashboard_single_request"}
      /\ HasKey(last.result, "photo_count")
      /\ HasKey(last.result, "status") => last.result.status = "created" )
    => last.result.photo_count + Len(ReturnedFailures) = Attempted

\* C8 (as claimed): every failed_uploads entry of the persisted report and
\* of the dict a sync call returns (failed_uploads, still_failed) has a
\* `reason`.
C8_ReasonInvariant ==
    /\ store.last_upload_report # <<>>
          => \A i \in 1..Len(FailedOf(store.last_upload_report[1])) :
                HasKey(FailedOf(store.last_upload_report[1])[i], "reason")
    /\ \A i \in 1..Len(FailedOf(last.result)) :
          HasKey(FailedOf(last.result)[i], "reason")
    /\ HasKey(last.result, "still_failed")
          => \A i \in 1..Len(last.result.still_failed) :
                HasKey(last.result.still_failed[i], "reason")

\* every one of the first n invocations of the callable fails
AllFail(func, n) == \A i \in 1..n : func[i] \in {"notok", "exc"}

\* C9: _retry_request on a callable that fails on every invocation invokes
\* it exactly `attempts` times, lets none of these failures out before the
\* last attempt, then raises the error of the last attempt.
C9_RetryBound ==
    ( rr.out # <<>> /\ AllFail(rr.func, rr.attempts) )
    => LET r == rr.out[1] IN
       /\ r.calls = rr.attempts
       /\ r.outs = SubSeq(rr.func, 1, rr.attempts)
       /\ r.raised
       /\ r.value = "None"
       /\ (rr.attempts >= 1) => (r.error = ErrorOf(rr.func[rr.attempts]))

C9_Witness ==
    /\ rr.out # <<>>
    /\ rr.attempts = 3
    /\ rr.func[1] = "notok" /\ rr.func[2] = "notok" /\ rr.func[3] = "exc"
    /\ rr.out[1].raised
    /\ rr.out[1].calls = 3
    /\ rr.out[1].error = "timeout"

\* C10 (as claimed): a response whose ok flag is false ends the retry: the
\* callable is invoked once and not again; only raised exceptions are
\* retried.
C10_RejectionIsTerminal ==
    rr.out # <<>>
    => LET r == rr.out[1] IN
       /\ (rr.attempts >= 1 /\ rr.func[1] = "notok") => (r.calls = 1)
       /\ \A i \in 1..r.calls : (r.outs[i] = "notok") => (i = r.calls)

\* the number of invocations of the callable that failed in the call r
FailedAttempts(r) == Cardinality({ i \in 1..r.calls : r.outs[i] \in {"notok", "exc"} })

\* C11: _retry_request sleeps backoff_base * 2^(k-1) after the k-th failed
\* attempt for every k < attempts and does not sleep after the final
\* attempt; with attempts = 3 and backoff_base = 0.5 (5 tenths) a call whose
\* attempts all fail sleeps 0.5 and then 1.0.
C11_BackoffSchedule ==
    rr.out # <<>>
    => LET r == rr.out[1]
           f == FailedAttempts(r)
           n == IF f < rr.attempts THEN f ELSE rr.attempts - 1
       IN  /\ Len(r.sleeps) = (IF n > 0 THEN n ELSE 0)
           /\ \A k \in 1..Len(r.sleeps) : r.sleeps[k] = rr.backoff_base * (2 ^ (k - 1))
           /\ (rr.attempts = 3 /\ rr.backoff_base = 5 /\ AllFail(rr.func, 3))
                 => (r.sleeps = <<5, 10>>)

C11_Witness ==
    /\ rr.out # <<>>
    /\ rr.attempts = 4
    /\ rr.backoff_base = 5
    /\ AllFail(rr.func, 4)
    /\ rr.out[1].sleeps = <<5, 10, 20>>

\* the entries of a failure list that are about document p
EntriesFor(failed, p) == { i \in 1..Len(failed) : failed[i].path = p }

\* the calls to endpoint ep made for document p
CallsFor(n, ep, p) == SelectSeq(n, LAMBDA c : c.ep = ep /\ c.path = p)

\* the last sync call was made by the approval handler
Handled ==
    /\ last.op = "push_to_dashboard_single_request"
    /\ last.args.enrollment_id = 1

\* C12: in push_to_dashboard_single_request a document of more than
\* 10*1024*1024 bytes is not embedded in the create request and is recorded
\* as failed with size_exceeded; a document of exactly that size is
\* embedded; every other document is still processed (each document is
\* either embedded or recorded as failed, once).
C12_SingleRequestSizeLimit ==
    ( Handled /\ CallsTo(net, {"external_create"}) = 1 )
    => LET post == SelectSeq(net, LAMBDA c : c.ep = "external_create")[1]
           embedded == { post.sent[i] : i \in 1..Len(post.sent) }
           failed == last.result.failed_photos
       IN  \A i \in 1..Len(docs) :
             LET p == docs[i].file_path
                 e == IF HasKey(last.result, "failed_photos")
                      THEN EntriesFor(failed, p) ELSE {}
             IN  /\ (p \in embedded) <=> (e = {})
                 /\ Cardinality(e) <= 1
                 /\ (files[i] > MAX_BYTES)
                       => /\ p \notin embedded
                          /\ \A j \in e :
                               \/ failed[j].error \in {"missing", "read_error"}
                               \/ /\ failed[j].error = "size_exceeded"
                                  /\ failed[j].size = files[i]
                 /\ (files[i] <= MAX_BYTES)
                       => \A j \in e : failed[j].error \in {"missing", "read_error"}

C12_Witness ==
    /\ Handled
    /\ Len(docs) = 2
    /\ files = <<MAX_BYTES + 1, MAX_BYTES>>
    /\ Len(net) = 2
    /\ net[2].ep = "external_create"
    /\ net[2].sent = <<"p2">>
    /\ net[2].out = "ok"
    /\ HasKey(last.result, "photo_count")
    /\ HasKey(last.result, "failed_photos")
    /\ last.result.failed_photos
          = <<[path |-> "p1", error |-> "size_exceeded", size |-> MAX_BYTES + 1]>>
    /\ last.result.photo_count = 1

\* C13 (as claimed): in any sequence of sync calls no request that reaches
\* the network carries the bytes of a document of more than 10 MB, and a
\* two-phase sync that got to its documents lists every such document in
\* failed_uploads (as size_exceeded, or as missing if the file is gone).
C13_OversizedNeverSent ==
    /\ \A i \in 1..Len(net) :
          (net[i].out # "exc")
             => \A j \in 1..Len(net[i].sent) : SizeOf(net[i].sent[j]) <= MAX_BYTES
    /\ ( /\ last.op \in TwoPhaseOps
         /\ HasKey(last.result, "photo_count")
         /\ HasKey(last.result, "status") => last.result.status = "created" )
       => \A i \in 1..Len(PathsByCategory(docs)) :
            LET p == PathsByCategory(docs)[i].path
                failed == FailedOf(last.result)
            IN  (SizeOf(p) > MAX_BYTES)
                  => \E j \in EntriesFor(failed, p) :
                        failed[j].reason \in {"size_exceeded", "missing"}

C15_PartialSuccessKeepsFailures ==
    ( /\ Handled
      /\ docs # <<>>
      /\ HasKey(last.result, "status_code")
      /\ last.result.status_code = 207 )
    => ( /\ enrollment = Approved
         /\ store.last_upload_report # <<>>
         /\ FailedOf(store.last_upload_report[1]) # <<>> )

\* C16 (as claimed): when the create call returns a non-2xx status, whatever
\* its body, the enrollment is not marked approved and the persisted
\* dashboard_tech_id and last_upload_report are what they were before the
\* call.
C16_TotalFailureChangesNothing ==
    [][ ( /\ Idle
          /\ last'.op = "push_to_dashboard_single_request"
          /\ HasKey(last'.result, "status_code")
          /\ ~Is2xx(last'.result.status_code) )
        => ( /\ enrollment' = enrollment
             /\ store' = store ) ]_vars

\* the last sync call got as far as attempting the enrollment's documents
ReachedDocuments ==
    \/ /\ last.op = "push_to_dashboard"
       /\ HasKey(last.result, "status")
       /\ last.result.status = "created"
    \/ /\ last.op = "upload_photos_for_technician"
       /\ HasKey(last.result, "photo_count")
    \/ /\ Handled
       /\ HasKey(last.result, "status_code")
    \/ /\ last.op = "retry_failed_uploads"
       /\ HasKey(last.result, "still_failed")

\* C17 (as claimed): after every sync call, full or resume, that got as far
\* as attempting documents, the persisted last_upload_report is the report
\* of that call: its failure list is the one the call returned and, for a
\* full sync, its photo_count is the one the call returned.
C17_ReportLifecycle ==
    ( ReachedDocuments /\ PathsByCategory(docs) # <<>> )
    => /\ store.last_upload_report # <<>>
       /\ FailedOf(store.last_upload_report[1]) = ReturnedFailures
       /\ (last.op # "retry_failed_uploads")
             => (store.last_upload_report[1].photo_count = last.result.photo_count)

\* all `Attempts` invocations of the calls cs failed
Exhausted(cs) == Len(cs) = Attempts /\ \A i \in 1..Len(cs) : cs[i].out # "ok"

\* C18: in the two-phase sync, a document whose upload-URL request or PUT
\* fails on every attempt is in failed_uploads exactly once, with the error
\* of the last attempt as reason; the loop goes on to the next document
\* (every document is found missing or gets an upload-URL request); and
\* every document is either uploaded or once in failed_uploads, an uploaded
\* one only if its registration failed.
C18_PerDocumentIsolation ==
    ( /\ last.op \in TwoPhaseOps
      /\ HasKey(last.result, "photo_count")
      /\ HasKey(last.result, "status") => last.result.status = "created" )
    => LET items == PathsByCategory(docs)
           failed == FailedOf(last.result)
       IN  \A i \in 1..Len(items) :
             LET p == items[i].path
                 e == EntriesFor(failed, p)
                 urls == CallsFor(net, "upload_url", p)
                 puts == CallsFor(net, "put", p)
                 regs == PhotoCalls(net, p)
             IN  /\ (p \notin UploadedPaths(net)) => (Cardinality(e) = 1)
                 /\ (p \in UploadedPaths(net))
                       => (e # {} => /\ Cardinality(e) = 1
                                     /\ Exhausted(regs))
                 /\ Exhausted(urls)
                       => /\ puts = <<>>
                          /\ p \notin UploadedPaths(net)
                          /\ \A j \in e : failed[j].reason = ErrorOf(urls[Attempts].out)
                 /\ Exhausted(puts)
                       => /\ p \notin UploadedPaths(net)
                          /\ \A j \in e : failed[j].reason = ErrorOf(puts[Attempts].out)
                 /\ \/ urls # <<>>
                    \/ \E j \in e : failed[j].reason = "missing"

C18_Witness ==
    /\ last.op = "upload_photos_for_technician"
    /\ Len(PathsByCategory(docs)) = 2
    /\ Exhausted(CallsFor(net, "upload_url", "p2"))
    /\ UploadedPaths(net) = {"p1"}
    /\ HasKey(last.result, "failed_uploads")
    /\ last.result.failed_uploads = <<[path |-> "p2", reason |-> "status_500"]>>
    /\ last.result.photo_count = 1

\* C19 (as claimed): no sync entry point raises to its caller because of a
\* failure scoped to one document; a malformed document entry is listed as
\* failed in the dict the call returns.
C19_NeverThrown ==
    /\ ~HasKey(last.result, "raised")
    /\ ( /\ last.op = "push_to_dashboard_single_request"
         /\ last.args.documents # <<>> /\ Healthy(net) /\ record.tech_id # "" )
       => ( /\ HasKey(last.result, "failed_photos")
            /\ Len(last.result.failed_photos) = Len(last.args.documents) )

\* C20: in every sync entry point, a login that raises or is rejected is
\* followed by no other request, is not repeated, changes nothing in the
\* store, and returns an error; for a rejected login the error names the
\* status code and the body is the first 200 characters of the answer, or
\* all of it if it is shorter.
C20_LoginFailsFast ==
    [][ ( Idle /\ last'.op # "none" /\ net'[1].out # "ok" )
        => ( /\ Len(net') = 1
             /\ net'[1].ep = "login"
             /\ store' = store
             /\ remote' = remote
             /\ enrollment' = enrollment
             /\ HasKey(last'.result, "error")
             /\ (net'[1].out = "notok")
                   => LET code == ToString(net'[1].status_code)
                          text == net'[1].text
                      IN  /\ last'.result.error
                                \in {"Login failed " \o code,
                                     "Login failed with status " \o code}
                          /\ HasKey(last'.result, "body")
                          /\ Len(last'.result.body) <= 200
                          /\ Len(last'.result.body) <= Len(text)
                          /\ last'.result.body
                                = SubSeq(text, 1, Len(last'.result.body))
                          /\ (Len(text) <= 200) => (last'.result.body = text) ) ]_vars

C20_Witness ==
    /\ last.op = "retry_failed_uploads"
    /\ Len(net) = 1
    /\ net[1].out = "notok"
    /\ net[1].status_code = 500
    /\ Len(net[1].text) = 201
    /\ last.result.error = "Login failed 500"
    /\ Len(last.result.body) = 200
    /\ store.last_upload_report # <<>>

\* C21 (as claimed): when the record has no technician id, push_to_dashboard
\* and push_to_dashboard_single_request return an error and have made no
\* network call.
C21_MissingTechIdNoNetwork ==
    ( last.op \in CreateOps /\ record.tech_id = "" )
       => ( HasKey(last.result, "error") /\ net = <<>> )

\* the id of the nested technician object of a JSON object answer
NestedId(resp) ==
    IF resp.technician.kind = "object" THEN resp.technician.id ELSE "None"

\* C22 (as claimed): the id extracted from the answer to the single-request
\* create is the first one present among the nested technician object's
\* id, the top-level id and the top-level technicianId, whenever at least
\* one of the three is present.
C22_FirstIdWins ==
    ( fn.name = "push_to_dashboard_single_request" /\ fn.resp.kind = "object" )
       => LET first == Or(NestedId(fn.resp), Or(fn.resp.id, fn.resp.technicianId))
          IN  (first # "None") => (fn.tech_id_returned = first)

\* C23: once the create request has been answered, the result holds the
\* status code and a response, which is the parsed body for a JSON object,
\* list or scalar and {"raw_text": text} for a body that is not JSON.
C23_ResponseContract ==
    ( fn.name = "push_to_dashboard_single_request" )
       => ( /\ HasKey(fn.result, "status_code")
            /\ fn.result.status_code = fn.status_code
            /\ HasKey(fn.result, "response")
            /\ (fn.resp.kind # "not_json") => (fn.result.response = fn.resp)
            /\ (fn.resp.kind = "not_json")
                  => ( /\ fn.result.response.kind = "object"
                       /\ fn.result.response.raw_text = fn.resp.text ) )

C23_Witness ==
    /\ fn.name = "push_to_dashboard_single_request"
    /\ fn.resp.kind = "not_json"
    /\ fn.result.response.raw_text = "<html>"
    /\ fn.result.status_code = 500

\* C24: a report written with set_dashboard_sync_info and read back as
\* retry_failed_uploads reads it gives the failed_uploads list that was
\* written: the same entries in the same order, each with its path and its
\* reason (or error and size).
C24_ReportRoundTrip ==
    ( fn.name = "retry_failed_uploads" )
       => ( /\ fn.failed = FailedOf(fn.report)
            /\ fn.report_obj = fn.report )

C24_Witness ==
    /\ fn.name = "retry_failed_uploads"
    /\ fn.backend = "sqlite"
    /\ Len(fn.failed) = 2
    /\ fn.failed[1] = [path |-> "p2", reason |-> "status_500"]
    /\ fn.failed[2] = [path |-> "p1", error |-> "size_exceeded", size |-> MAX_BYTES + 1]

PayloadBuilders ==
    {"push_to_dashboard", "push_to_dashboard_single_request",
     "create_technician_on_dashboard", "push_dashboard_update"}

DateKeys ==
    { <<"insuranceExpiration", "insurance_exp">>,
      <<"registrationExpiration", "registration_exp">> }

OptionalKeys ==
    { <<"vehicleYear", "year">>, <<"vehicleMake", "make">>,
      <<"vehicleModel", "model">>, <<"referredBy", "referred_by">> }

Parsable(date_str) == NonEmpty(date_str, <<>>) /\ fromisoformat_ok(date_str[1])

\* C25 (as claimed): every payload built by one of the four payload builders
\* has the keys insuranceExpiration and registrationExpiration; the value is
\* the YYYY-MM-DD form of a parsable date, and an explicit empty value (null
\* or "") for a date that is absent or does not parse.
C25_DateKeysNeverOmitted ==
    ( fn.name \in PayloadBuilders )
       => \A kc \in DateKeys :
            LET date_str == fn.record[kc[2]] IN
            /\ HasKey(fn.payload, kc[1])
            /\ IF Parsable(date_str)
               THEN fn.payload[kc[1]] = Some(SubSeq(date_str[1], 1, 10))
               ELSE fn.payload[kc[1]] \in {None, Some(<<>>)}

\* C26 (as claimed): in the create payload of push_to_dashboard and of
\* push_to_dashboard_single_request each of vehicleYear, vehicleMake,
\* vehicleModel and referredBy is a key exactly when the record's field is
\* present and not empty.
C26_OptionalFieldsOmitted ==
    ( fn.name \in {"push_to_dashboard", "push_to_dashboard_single_request"} )
       => \A kc \in OptionalKeys :
            HasKey(fn.payload, kc[1]) <=> NonEmpty(fn.record[kc[2]], "")

\* the concurrent calls that returned status created
CreatedBy ==
    { p \in DOMAIN push :
         /\ push[p].at = "done"
         /\ HasKey(push[p].result, "status")
         /\ push[p].result.status = "created" }

\* C27: the exists check and the create of push_to_dashboard are two
\* requests with nothing held in between: a call goes on to its create on
\* the answer its own check got, and its create step never looks at what
\* the dashboard holds by then: it never ends in "exists", and it adds a
\* record exactly when it is answered with an id.  So of two calls for one
\* techId both can see an empty list and both create.
C27_CheckThenCreateNotAtomic ==
    [][ \A p \in DOMAIN push :
          /\ (push[p].at = "check" /\ push'[p].at = "create")
                => push'[p].check \in {"list_empty", "nonlist", "badjson", "notok"}
          /\ (push[p].at = "create" /\ push'[p].at = "done")
                => LET result == push'[p].result
                       created == HasKey(result, "status") /\ result.status = "created"
                   IN  /\ HasKey(result, "status") => created
                       /\ created <=> (remote' = remote + 1)
                       /\ ~created => (remote' = remote) ]_vars

C27_Witness ==
    /\ push # <<>>
    /\ CreatedBy = {1, 2}
    /\ push[1].check = "list_empty"
    /\ push[2].check = "list_empty"
    /\ remote = 2

\* the row of the documents list that holds path p, and the place of its
\* doc_type among the categories
DocIndex(p) == CHOOSE i \in 1..Len(docs) : docs[i].file_path = p

CategoryRank(p) ==
    LET doc_type == docs[DocIndex(p)].doc_type
    IN  CASE doc_type = "vehicle" -> 1
          [] doc_type = "insurance" -> 2
          [] doc_type = "registration" -> 3
          [] OTHER -> 4

InListOrder(p, q) == DocIndex(p) <= DocIndex(q)

InCategoryOrder(p, q) ==
    \/ CategoryRank(p) < CategoryRank(q)
    \/ CategoryRank(p) = CategoryRank(q) /\ DocIndex(p) <= DocIndex(q)

\* the requests of the upload stage of the calls n
UploadStage(n) == { i \in 1..Len(n) : n[i].ep \in {"upload_url", "put"} }

\* the calls n take the documents one at a time in the order of the list:
\* a request for one document never comes after a request for a later one
OneAtATimeInListOrder(n) ==
    \A i, j \in UploadStage(n) : (i < j) => InListOrder(n[i].path, n[j].path)

\* the same, in the order of the categories
OneAtATimeInCategoryOrder(n) ==
    \A i, j \in UploadStage(n) : (i < j) => InCategoryOrder(n[i].path, n[j].path)

\* the upload-URL requests of a document precede its PUTs, and a PUT is
\* made only after an upload-URL request that succeeded
UrlBeforePut(n) ==
    \A j \in 1..Len(n) :
        (n[j].ep = "put")
           => /\ \E i \in 1..(j - 1) :
                    n[i].ep = "upload_url" /\ n[i].path = n[j].path /\ n[i].out = "ok"
              /\ \A i \in (j + 1)..Len(n) :
                    ~(n[i].ep = "upload_url" /\ n[i].path = n[j].path)

\* the documents request j registers
RegisteredBy(c) ==
    IF c.ep = "batch" THEN { c.photos[i] : i \in 1..Len(c.photos) }
    ELSE IF c.ep = "photos" THEN {c.path}
    ELSE {}

\* a registration request names only documents whose own PUT succeeded
\* before it
RegisteredAfterPut(n) ==
    \A j \in 1..Len(n) : \A p \in RegisteredBy(n[j]) :
        \E i \in 1..(j - 1) : n[i].ep = "put" /\ n[i].path = p /\ n[i].out = "ok"

PriorFailures(st) ==
    IF st.last_upload_report = <<>> THEN {}
    ELSE IF HasKey(st.last_upload_report[1], "failed_uploads")
    THEN { st.last_upload_report[1].failed_uploads[i].path :
              i \in 1..Len(st.last_upload_report[1].failed_uploads) }
    ELSE {}

\* C29: retry_failed_uploads makes, besides its login and the lookup of the
\* dashboard id, only upload-URL, PUT and individual registration requests,
\* each for a document listed in failed_uploads of the report persisted
\* before the call; it makes no batch request and no request for any other
\* document.
C29_ResumeTouchesOnlyFailures ==
    [][ ( Idle /\ last'.op = "retry_failed_uploads" )
        => \A i \in 1..Len(net') :
             /\ net'[i].ep \in {"login", "check", "upload_url", "put", "photos"}
             /\ (net'[i].ep \in {"upload_url", "put", "photos"})
                   => (net'[i].path \in PriorFailures(store))
             /\ (net'[i].ep \in {"login", "check"}) => (i <= 2) ]_vars

C29_Witness ==
    /\ last.op = "retry_failed_uploads"
    /\ Len(docs) = 2
    /\ HasKey(last.result, "retried_count")
    /\ last.result.retried_count = 1
    /\ store.last_upload_report = <<[photo_count |-> 2]>>
    /\ \E i \in 1..Len(net) : net[i].ep = "photos" /\ net[i].path = "p1" /\ net[i].out = "ok"
    /\ \A i \in 1..Len(net) : net[i].path # "p2"

\* the doc_type of the documents row that holds path p, if there is one
RowsWith(p) == { i \in 1..Len(docs) : docs[i].file_path = p }

\* C30: a resume that reaches its loop never aborts on the category mapping:
\* every entry of the failed list is re-attempted and ends registered or in
\* still_failed, and each upload-URL and registration request carries the
\* document's doc_type or, when the path is not a row of the documents table
\* or the lookup of the rows failed, the default category 'vehicle'.
C30_StaleMappingNeverAborts ==
    [][ ( /\ Idle
          /\ last'.op = "retry_failed_uploads"
          /\ net'[1].out = "ok"
          /\ last'.result # [error |-> "enrollment not found"]
          /\ store.dashboard_tech_id # "None"
          /\ store.last_upload_report # <<>>
          /\ PriorFailures(store) # {} )
        => ( /\ HasKey(last'.result, "still_failed")
             /\ \A p \in PriorFailures(store) :
                   \/ p \in RegisteredPaths(net')
                   \/ \E k \in 1..Len(last'.result.still_failed) :
                         last'.result.still_failed[k].path = p
             /\ last'.result.retried_count + Len(last'.result.still_failed)
                   = Len(store.last_upload_report[1].failed_uploads)
             /\ \A i \in 1..Len(net') :
                   (net'[i].ep \in {"upload_url", "photos"})
                      => /\ HasKey(net'[i], "category")
                         /\ \/ net'[i].category = "vehicle"
                            \/ \E r \in RowsWith(net'[i].path) :
                                  net'[i].category = docs[r].doc_type ) ]_vars

C30_Witness ==
    /\ last.op = "retry_failed_uploads"
    /\ docs = <<[file_path |-> "p1", doc_type |-> "insurance"]>>
    /\ \E i, j \in 1..Len(net) :
          /\ i < j
          /\ net[i].ep = "upload_url" /\ net[i].path = "p1"
          /\ net[i].category = "vehicle"
          /\ net[j].ep = "photos" /\ net[j].path = "p2" /\ net[j].out = "ok"
          /\ net[j].category = "vehicle"

\* the documents the last single-request call looped over
DocumentsOfCall ==
    IF last.args.enrollment_id # 0 THEN [i \in 1..Len(docs) |-> docs[i].file_path]
    ELSE <<>>

CreateRejections == {"notok", "ok_badjson", "ok_noid"}

\* C32: in push_to_dashboard, when the create call answers non-2xx, or 2xx
\* with an unparseable body or without an id, the call returns an error and
\* issues no upload-URL request, no PUT and no registration call: the create
\* request is its last request.
C32_CreateRejectionEndsCall ==
    ( /\ last.op = "push_to_dashboard"
      /\ \E i \in 1..Len(net) : net[i].ep = "create" /\ net[i].out \in CreateRejections )
    => ( /\ HasKey(last.result, "error")
         /\ ~HasKey(last.result, "status")
         /\ CallsTo(net, {"upload_url", "put", "batch", "photos"}) = 0
         /\ net[Len(net)].ep = "create"
         /\ CallsTo(net, {"create"}) = 1 )

C32_Witness ==
    /\ last.op = "push_to_dashboard"
    /\ Len(docs) = 2
    /\ Len(net) = 3
    /\ net[3].ep = "create"
    /\ net[3].out = "ok_noid"
    /\ last.result = [error |-> "No technician ID in response"]

\* the rows of the documents table that the two-phase sync handles
HandledRows ==
    { i \in 1..Len(docs) : docs[i].doc_type \in {"vehicle", "insurance", "registration"} }

\* the paths named by a list of calls or of failure entries
PathsIn(l) == { l[i].path : i \in 1..Len(l) }

\* among the calls n: at most `Attempts` requests of each of the kinds eps
\* for every document, and none for a document outside `paths`
AtMostThreeEach(n, eps, paths) ==
    \A ep \in eps :
        /\ \A p \in paths : Len(CallsFor(n, ep, p)) <= Attempts
        /\ \A i \in 1..Len(n) : (n[i].ep = ep) => (n[i].path \in paths)

\* C33: push_to_dashboard on N documents issues at most 4 + 9N network
\* calls (one login, one exists check, one create, one batch call, and per
\* document at most 3 upload-URL requests, 3 PUTs and 3 individual
\* registrations) and returns a dict; retry_failed_uploads on a failure
\* list of N entries issues at most 2 + 9N (one login, one lookup, the same
\* per entry) and returns a dict.
C33_Step ==
    /\ ( Idle /\ last'.op = "push_to_dashboard" )
       => LET N == Cardinality(HandledRows)
              paths == { docs[i].file_path : i \in HandledRows }
          IN  /\ Len(net') <= 4 + 9 * N
              /\ \A ep \in {"login", "check", "create", "batch"} : CallsTo(net', {ep}) <= 1
              /\ AtMostThreeEach(net', {"upload_url", "put", "photos"}, paths)
              /\ CallsTo(net', {"login", "check", "create", "batch",
                                "upload_url", "put", "photos"}) = Len(net')
              /\ HasKey(last'.result, "error") \/ HasKey(last'.result, "status")
    /\ ( Idle /\ last'.op = "retry_failed_uploads" )
       => LET failed == IF store.last_upload_report = <<>> THEN <<>>
                        ELSE FailedOf(store.last_upload_report[1])
              N == Len(failed)
          IN  /\ Len(net') <= 2 + 9 * N
              /\ \A ep \in {"login", "check"} : CallsTo(net', {ep}) <= 1
              /\ AtMostThreeEach(net', {"upload_url", "put", "photos"}, PathsIn(failed))
              /\ CallsTo(net', {"login", "check", "upload_url", "put", "photos"})
                    = Len(net')
              /\ HasKey(last'.result, "error") \/ HasKey(last'.result, "retried_count")

C33_BoundedWork == [][C33_Step]_vars

\* a push_to_dashboard on one document that makes all 13 requests
C33_Witness ==
    /\ last.op = "push_to_dashboard"
    /\ Cardinality(HandledRows) = 1
    /\ Len(net) = 13
    /\ Len(CallsFor(net, "upload_url", "p1")) = 3
    /\ Len(CallsFor(net, "put", "p1")) = 3
    /\ Len(CallsFor(net, "photos", "p1")) = 3
    /\ last.result = [status |-> "created", photo_count |-> 1]

\* positions of the calls to endpoint ep in the calls n
PositionsOf(n, ep) == { i \in 1..Len(n) : n[i].ep = ep }

\* the individual registrations of document p in n are one pass of the
\* retry wrapper: one to three calls in a row, none after a success
OnePass(n, p) ==
    LET at == { i \in PositionsOf(n, "photos") : n[i].path = p } IN
    /\ at # {}
    /\ Cardinality(at) <= Attempts
    /\ \A i \in at, j \in at : i < j => n[i].out # "ok"
    /\ \A i \in at, j \in at : \A k \in i..j : k \in at
    /\ (Cardinality(at) < Attempts) => (\E i \in at : n[i].out = "ok")

\* C34: in push_to_dashboard and upload_photos_for_technician the batch
\* registration is requested once when there are uploaded entries and not at
\* all when there are none; when it answers 2xx no individual registration
\* is made; when it fails every uploaded entry goes through the individual
\* fallback once, after the batch request, and no other document does; with
\* no uploaded entries no individual registration is made either.
C34_BatchOrFallback ==
    ( last.op \in TwoPhaseOps )
    => LET batch == PositionsOf(net, "batch")
           photos == PositionsOf(net, "photos")
           uploaded == UploadedPaths(net)
       IN  /\ Cardinality(batch) = (IF uploaded = {} THEN 0 ELSE 1)
           /\ (uploaded = {}) => (photos = {})
           /\ \A b \in batch :
                /\ (net[b].out \notin {"notok", "exc"}) => (photos = {})
                /\ (net[b].out \in {"notok", "exc"})
                      => /\ \A p \in uploaded : OnePass(net, p)
                         /\ \A i \in photos : i > b /\ net[i].path \in uploaded

C34_Witness ==
    /\ last.op = "upload_photos_for_technician"
    /\ \E i \in 1..Len(net) : net[i].ep = "batch" /\ net[i].out = "notok"
    /\ UploadedPaths(net) = {"p1", "p2"}
    /\ CallsTo(net, {"photos"}) = 2
    /\ last.result = [photo_count |-> 2]

\* C35: in push_to_dashboard, an exists check that answers non-2xx, or 2xx
\* with an unparseable body, a body that is not a list or an empty list, is
\* followed by the create request; an exists check that raises a transport
\* exception ends the call with an error and without a create request.
C35_ExistsCheckBestEffort ==
    ( last.op = "push_to_dashboard" /\ Len(net) >= 2 )
    => ( /\ net[2].ep = "check"
         /\ (net[2].out \in {"notok", "badjson", "nonlist", "list_empty"})
               => ( Len(net) >= 3 /\ net[3].ep = "create" )
         /\ (net[2].out = "exc")
               => ( /\ Len(net) = 2
                    /\ CallsTo(net, {"create"}) = 0
                    /\ DOMAIN last.result = {"error"} ) )

C35_Witness ==
    /\ last.op = "push_to_dashboard"
    /\ Len(net) >= 3
    /\ net[2].ep = "check"
    /\ net[2].out = "notok"
    /\ net[3].ep = "create"
    /\ net[3].out = "ok_id"
    /\ HasKey(last.result, "status")
    /\ last.result.status = "created"
    /\ remote = 1

\* the answers to the create request from which the code takes an id: a
\* nested technician object with an id, or a top-level id
AnswersWithId == {"technician_id", "top_id"}

\* C36: push_to_dashboard_single_request calls set_dashboard_sync_info if
\* and only if it was given an enrollment id and took an id from the answer;
\* in every other outcome (login failure, missing technician id, request
\* exception, no id in the answer) and when the write fails the persisted
\* dashboard_tech_id and last_upload_report are what they were; a write that
\* succeeds stores the id and the report of the call; a failed write leaves
\* the returned dict as it is without one.
C36_Step ==
    ( Idle /\ last'.op = "push_to_dashboard_single_request" )
    => LET r == last'.result
           answered == HasKey(r, "status_code")
           extracted == answered /\ r.response \in AnswersWithId
       IN  /\ (last'.write # "none") <=> (last'.args.enrollment_id # 0 /\ extracted)
           /\ (last'.write # "ok") => (store' = store)
           /\ (last'.write = "ok")
                 => /\ store'.dashboard_tech_id = DashboardId
                    /\ store'.last_upload_report[1].photo_count = r.photo_count
           /\ (last'.write = "exc")
                 => /\ DOMAIN r \subseteq {"status_code", "response", "photo_count",
                                          "failed_photos"}
                    /\ r.photo_count = Len(net'[2].sent)
                    /\ Is2xx(r.status_code) <=> (net'[2].out = "ok")

C36_PersistenceCondition == [][C36_Step]_vars

C36_Witness ==
    /\ Handled
    /\ last.write = "exc"
    /\ last.result = [status_code |-> 201, response |-> "top_id", photo_count |-> 2]
    /\ store = [dashboard_tech_id |-> "None", last_upload_report |-> <<>>]
    /\ enrollment = Approved

\* the errors retry_failed_uploads returns
ResumeErrors ==
    {"Login exception: timeout", "Login failed 401", "Login failed 500",
     "enrollment not found", "dashboard technician id not found",
     "no last_upload_report available"}

\* C37: whenever retry_failed_uploads returns an error (login failed or
\* raised, enrollment not found, no dashboard id stored or found by the
\* lookup, no last_upload_report) or, the report listing no failure, the
\* zero-work result, the persisted dashboard_tech_id and last_upload_report
\* are what they were before the call and no upload or registration request
\* was made.
C37_Step ==
    ( Idle /\ last'.op = "retry_failed_uploads" )
    => LET r == last'.result
           nothing_failed == /\ store.last_upload_report # <<>>
                             /\ FailedOf(store.last_upload_report[1]) = <<>>
       IN  /\ HasKey(r, "error")
                 => /\ r.error \in ResumeErrors
                    /\ store' = store
                    /\ CallsTo(net', {"upload_url", "put", "photos", "batch"}) = 0
           /\ (~HasKey(r, "error") /\ nothing_failed)
                 => /\ r = [retried_count |-> 0, remaining_failed |-> 0]
                    /\ store' = store
                    /\ CallsTo(net', {"upload_url", "put", "photos", "batch"}) = 0
           /\ (store.last_upload_report = <<>>) => HasKey(r, "error")

C37_ResumeErrorsKeepStore == [][C37_Step]_vars

\* a resume that finds the dashboard id by the lookup and then no report
C37_Witness ==
    /\ last.op = "retry_failed_uploads"
    /\ last.result = [error |-> "no last_upload_report available"]
    /\ Len(net) = 2
    /\ net[2].out = "list_nonempty"
    /\ store = [dashboard_tech_id |-> "None", last_upload_report |-> <<>>]

\* C38: every retry_failed_uploads call on an enrollment that has a report
\* leaves it with a report whose photo_count is not smaller and whose failed
\* paths are some of the paths that had failed before, in the order they
\* had; so over consecutive resumes the count never decreases and the failed
\* set never grows.  Once the report lists no failure, a resume changes
\* nothing, issues no upload or registration request and, when it gets as
\* far as the report, returns retried_count 0.
C38_Step ==
    ( Idle /\ last'.op = "retry_failed_uploads" /\ store.last_upload_report # <<>> )
    => LET old == store.last_upload_report[1]
           was == PathsOf(FailedOf(old))
       IN  /\ store'.last_upload_report # <<>>
           /\ LET new == store'.last_upload_report[1]
                  now == PathsOf(FailedOf(new))
              IN  /\ new.photo_count >= old.photo_count
                  /\ now = SelectSeq(was, LAMBDA p : p \in { now[i] : i \in 1..Len(now) })
                  /\ HasKey(last'.result, "retried_count")
                        => new.photo_count = old.photo_count + last'.result.retried_count
           /\ (was = <<>>)
                 => /\ store' = store
                    /\ CallsTo(net', {"upload_url", "put", "photos", "batch"}) = 0
                    /\ \/ HasKey(last'.result, "error")
                       \/ last'.result = [retried_count |-> 0, remaining_failed |-> 0]

SuccessesWithin(func, n) == { k \in 1..n : func[k] \in {"ok", "value"} }

\* C39: when the callable handed to _retry_request first succeeds at
\* attempt k <= attempts (it returns an ok response, or a value that has no
\* ok attribute), _retry_request returns that value, has invoked the callable
\* exactly k times, has slept exactly k - 1 times and raises nothing.
C39_StopsAtFirstSuccess ==
    ( rr.out # <<>> /\ SuccessesWithin(rr.func, rr.attempts) # {} )
    => LET r == rr.out[1]
           k == CHOOSE x \in SuccessesWithin(rr.func, rr.attempts) :
                    \A y \in SuccessesWithin(rr.func, rr.attempts) : x <= y
       IN  /\ ~r.raised
           /\ r.error = "None"
           /\ r.value = rr.func[k]
           /\ r.calls = k
           /\ r.outs = SubSeq(rr.func, 1, k)
           /\ Len(r.sleeps) = k - 1

C39_Witness ==
    /\ rr.out # <<>>
    /\ rr.attempts = 4
    /\ rr.func[1] = "exc" /\ rr.func[2] = "notok"
    /\ rr.func[3] = "value" /\ rr.func[4] = "ok"
    /\ rr.out[1].value = "value"
    /\ rr.out[1].calls = 3
    /\ Len(rr.out[1].sleeps) = 2
    /\ ~rr.out[1].raised

\* positions of the requests of kind ep among the Segno client's calls
SegnoCalls(ep) == { i \in 1..Len(segno.calls) : segno.calls[i].ep = ep }

\* the submit POST at position i was answered by the login page or by 401
Redirected(i) ==
    /\ segno.calls[i].out = "answer"
    /\ segno.calls[i].status_code = 401 \/ segno.calls[i].url = "login"

\* C40: one top-level SegnoClient.submit_enrollment call makes at most two
\* submit POSTs and always returns a result dict; it makes a second POST
\* only after the first was answered by a login redirect or 401 and a login
\* after that succeeded; a second POST answered by a login redirect or 401
\* yields success false with status_code 401; a failed login after the
\* first POST yields success false and no second POST.
C40_SegnoReauthBounded ==
    ( segno.result # SegnoIdle.result )
    => LET submits == SegnoCalls("submit")
           logins == SegnoCalls("login")
           n == Len(segno.calls)
       IN  /\ DOMAIN segno.result = {"success", "status_code", "error", "segno_record_id"}
           /\ segno.result.success \in BOOLEAN
           /\ Cardinality(submits) <= 2
           /\ Cardinality(logins) <= 2
           /\ \A i \in submits, j \in submits :
                 (i < j) => /\ Redirected(i)
                            /\ j = i + 2
                            /\ segno.calls[i + 1].ep = "login"
                            /\ segno.calls[i + 1].out \in {"home", "logout_text", "cookie"}
                            /\ Redirected(j)
                                  => /\ ~segno.result.success
                                     /\ segno.result.status_code = 401
           /\ \A i \in submits, l \in logins :
                 (i < l /\ segno.calls[l].out \notin {"home", "logout_text", "cookie"})
                    => /\ l = n
                       /\ ~segno.result.success
                       /\ Cardinality(submits) = 1
           /\ segno.result.success
                 => /\ segno.calls[n].ep = "submit"
                    /\ segno.calls[n].status_code = 200
                    /\ ~Redirected(n)

\* a session that expired: the first POST lands on the login page, the
\* login succeeds, the second POST lands there again
C40_Witness ==
    /\ Len(segno.calls) = 3
    /\ segno.calls[1].ep = "submit" /\ segno.calls[1].url = "login"
    /\ segno.calls[2].ep = "login" /\ segno.calls[2].out = "cookie"
    /\ segno.calls[3].ep = "submit" /\ segno.calls[3].url = "login"
    /\ segno.calls[3].status_code = 200
    /\ segno.result = [success |-> FALSE, status_code |-> 401,
                       error |-> "Authentication failed after retry",
                       segno_record_id |-> "None"]

====
